---- MODULE Spec2Model ----
(***************************************************************************)
(* Store locator pipeline of jsuk/stores: the tour builder                 *)
(* (orderStoresNearestNeighbor), the probe aggregators (getAllStores,      *)
(* fetchStoresWithHexagonalGrid, fetchStoresWithGridSearch) and the CLI    *)
(* pipeline of kml-generator.js.                                           *)
(*                                                                         *)
(* Coordinates are fixed-point integers, one unit = 0.00001 degrees.  A JS  *)
(* value that may be undefined is a sequence: <<>> is undefined, <<v>> is  *)
(* the number v.  Sequences are 1-based, so a JS index i is i + 1 here.    *)
(***************************************************************************)
EXTENDS Integers, Sequences, FiniteSets, TLC

(***************************************************************************)
(* Bounds of the model.                                                    *)
(***************************************************************************)
\* longest input sequence handed to the tour builder
MaxStores == 3

(***************************************************************************)
(* JS helpers.                                                             *)
(***************************************************************************)
\* truthiness of an optional number: undefined and 0 are falsy
JsTruthy(v) == v # <<>> /\ v[1] # 0

\* a || b on optional numbers
JsOr(a, b) == IF JsTruthy(a) THEN a ELSE b

Abs(x) == IF x < 0 THEN -x ELSE x

(***************************************************************************)
(* calculateDistance.  The haversine value is an IEEE double; the code     *)
(* only ever compares two such values (dist < nearestDist).  The table     *)
(* holds, for the coordinate values CoordValues, the dense rank of the     *)
(* double that lines 817-824 compute for (lat1, lat2, |lon2 - lon1|), so   *)
(* every comparison and every tie of the doubles is kept exactly           *)
(* (rank 0 = 0 km, rank 27 = 0.235880060 km).                              *)
(***************************************************************************)
CoordValues == {0, 50, 100, 150}

HaversineOrder ==
  << << << 0,  4, 11, 21>>,
        << 4,  7, 15, 24>>,
        <<11, 15, 17, 26>>,
        <<21, 24, 26, 27>> >>,
     << << 4,  7, 15, 24>>,
        << 0,  3, 10, 20>>,
        << 4,  6, 13, 23>>,
        <<11, 14, 16, 25>> >>,
     << <<11, 15, 17, 26>>,
        << 4,  6, 13, 23>>,
        << 0,  2,  9, 19>>,
        << 4,  5, 12, 22>> >>,
     << <<21, 24, 26, 27>>,
        <<11, 14, 16, 25>>,
        << 4,  5, 12, 22>>,
        << 0,  1,  8, 18>> >> >>

calculateDistance(lat1, lon1, lat2, lon2) ==
  HaversineOrder[(lat1 \div 50) + 1][(lat2 \div 50) + 1][(Abs(lon2 - lon1) \div 50) + 1]

\* let nearestDist = Infinity: above every distance
Infinity == 1000

(***************************************************************************)
(* orderStoresNearestNeighbor: the scan of one loop iteration.             *)
(***************************************************************************)
\* the mutant: "<=" instead of "<", the last of several nearest stores wins
RECURSIVE NearestScanLastWins(_, _, _, _, _, _)
NearestScanLastWins(remaining, lat, lng, idx, nearestIdx, nearestDist) ==
  IF idx > Len(remaining) THEN nearestIdx
  ELSE LET dist == calculateDistance(lat, lng, remaining[idx].latitude,
                                     remaining[idx].longitude)
       IN  IF dist <= nearestDist
           THEN NearestScanLastWins(remaining, lat, lng, idx + 1, idx, dist)
           ELSE NearestScanLastWins(remaining, lat, lng, idx + 1, nearestIdx, nearestDist)

\* remaining.forEach((store, idx) => { if (dist < nearestDist) ... })
RECURSIVE NearestScan(_, _, _, _, _, _)
NearestScan(remaining, lat, lng, idx, nearestIdx, nearestDist) ==
  IF idx > Len(remaining) THEN nearestIdx
  ELSE LET dist == calculateDistance(lat, lng, remaining[idx].latitude,
                                     remaining[idx].longitude)
       IN  IF dist < nearestDist
           THEN NearestScan(remaining, lat, lng, idx + 1, idx, dist)
           ELSE NearestScan(remaining, lat, lng, idx + 1, nearestIdx, nearestDist)

\* let nearestIdx = 0; let nearestDist = Infinity; forEach ...
NearestIdx(remaining, lat, lng) == NearestScan(remaining, lat, lng, 1, 1, Infinity)

\* the mutant: the head is removed whatever the index
SpliceHead(s, idx) == Tail(s)

\* remaining.splice(nearestIdx, 1): the sequence without its idx-th element
Splice(s, idx) == SubSeq(s, 1, idx - 1) \o SubSeq(s, idx + 1, Len(s))

\* the mutant: the first store is taken as the start whatever the arguments
TourEntryFirstStore(stores, startLat, startLng) ==
  [ordered    |-> <<Head(stores)>>,
   remaining  |-> Tail(stores),
   currentLat |-> Head(stores).latitude,
   currentLng |-> Head(stores).longitude]

\* the state of the function after "if (!startLat || !startLng) {...}"
TourEntry(stores, startLat, startLng) ==
  IF ~JsTruthy(startLat) \/ ~JsTruthy(startLng)
  THEN [ordered    |-> <<Head(stores)>>,
        remaining  |-> Tail(stores),
        currentLat |-> Head(stores).latitude,
        currentLng |-> Head(stores).longitude]
  ELSE [ordered    |-> <<>>,
        remaining  |-> stores,
        currentLat |-> JsOr(startLat, <<stores[1].latitude>>)[1],
        currentLng |-> JsOr(startLng, <<stores[1].longitude>>)[1]]

\* one iteration of "while (remaining.length > 0)"
TourIterate(t) ==
  LET nearestIdx == NearestIdx(t.remaining, t.currentLat, t.currentLng)
      nearest    == t.remaining[nearestIdx]
  IN  [ordered    |-> Append(t.ordered, nearest),
       remaining  |-> Splice(t.remaining, nearestIdx),
       currentLat |-> nearest.latitude,
       currentLng |-> nearest.longitude]

RECURSIVE TourLoop(_)
TourLoop(t) == IF Len(t.remaining) > 0 THEN TourLoop(TourIterate(t)) ELSE t.ordered

\* the whole function, as the pipeline calls it
orderStoresNearestNeighbor(stores, startLat, startLng) ==
  IF Len(stores) = 0 THEN <<>>
  ELSE IF Len(stores) = 1 THEN stores
  ELSE TourLoop(TourEntry(stores, startLat, startLng))

(***************************************************************************)
(* Geometry.  A point is <<lon, lat>>; a ring is a closed sequence of      *)
(* points (first = last); GeoJSON coordinates hold the outer ring of a     *)
(* Polygon first, and one such list per part of a MultiPolygon.  The       *)
(* parts of the boundaries modelled here are convex.                       *)
(***************************************************************************)
Polygon(ring) == [type |-> "Polygon", coordinates |-> <<ring>>]

MultiPolygon(rings) ==
  [type |-> "MultiPolygon", coordinates |-> [i \in 1..Len(rings) |-> <<rings[i]>>]]

\* the outer rings of a geometry, as GDAL reads them from its WKT
OuterRings(geojson) ==
  IF geojson.type = "Polygon" THEN <<geojson.coordinates[1]>>
  ELSE [i \in 1..Len(geojson.coordinates) |-> geojson.coordinates[i][1]]

SetMax(S) == CHOOSE x \in S : \A y \in S : y <= x
SetMin(S) == CHOOSE x \in S : \A y \in S : x <= y

RECURSIVE SeqSum(_)
SeqSum(s) == IF s = <<>> THEN 0 ELSE Head(s) + SeqSum(Tail(s))

\* x / coords.length: the rings modelled have means that are whole units
VertexMean(coords) ==
  << SeqSum([i \in 1..Len(coords) |-> coords[i][1]]) \div Len(coords),
     SeqSum([i \in 1..Len(coords) |-> coords[i][2]]) \div Len(coords) >>

\* twice the shoelace sum of lines 280-282, before Math.abs(area / 2)
ShoelaceTwice(ring) ==
  SeqSum([i \in 1..Len(ring) |->
            LET j == IF i = 1 THEN Len(ring) ELSE i - 1
            IN  (ring[i][1] * ring[j][2]) - (ring[j][1] * ring[i][2])])

\* the mutant: the areas are not compared, the first part is kept
LargestPolygonFirst(polygons, i, largest, maxArea) == largest

\* the loop of lines 277-289: the first part of strictly largest area
RECURSIVE LargestPolygon(_, _, _, _)
LargestPolygon(polygons, i, largest, maxArea) ==
  IF i > Len(polygons) THEN largest
  ELSE LET area == Abs(ShoelaceTwice(polygons[i][1]))
       IN  IF area > maxArea
           THEN LargestPolygon(polygons, i + 1, polygons[i], area)
           ELSE LargestPolygon(polygons, i + 1, largest, maxArea)

calculateCentroid(geojson) ==
  IF geojson.type = "Polygon" THEN VertexMean(geojson.coordinates[1])
  ELSE IF geojson.type = "MultiPolygon"
  THEN VertexMean(LargestPolygon(geojson.coordinates, 1, geojson.coordinates[1], 0)[1])
  ELSE <<0, 0>>

\* polygon.getEnvelope()
GdalEnvelope(geojson) ==
  LET rings == OuterRings(geojson)
      xs == UNION { { rings[r][i][1] : i \in 1..Len(rings[r]) } : r \in 1..Len(rings) }
      ys == UNION { { rings[r][i][2] : i \in 1..Len(rings[r]) } : r \in 1..Len(rings) }
  IN  [minX |-> SetMin(xs), maxX |-> SetMax(xs), minY |-> SetMin(ys), maxY |-> SetMax(ys)]

\* the normals of the edges of a ring that have a length
EdgeNormals(ring) ==
  { << ring[i + 1][2] - ring[i][2], ring[i][1] - ring[i + 1][1] >> : i \in 1..(Len(ring) - 1) }
    \ { <<0, 0>> }

Projection(ring, n) == { (ring[i][1] * n[1]) + (ring[i][2] * n[2]) : i \in 1..Len(ring) }

\* two convex rings share a region of positive area: no edge normal of
\* either separates them, not even by touching
ConvexOverlap(a, b) ==
  \A n \in EdgeNormals(a) \cup EdgeNormals(b) :
    /\ SetMax(Projection(a, n)) > SetMin(Projection(b, n))
    /\ SetMax(Projection(b, n)) > SetMin(Projection(a, n))

\* hexPolygon.intersects(polygon) && hexPolygon.intersection(polygon).getArea() > 0
\* a part without area has no intersection of positive area with anything
GdalIntersectionHasArea(hexRing, geojson) ==
  \E r \in 1..Len(OuterRings(geojson)) :
    /\ ShoelaceTwice(OuterRings(geojson)[r]) # 0
    /\ ConvexOverlap(hexRing, OuterRings(geojson)[r])

Cross(o, a, b) == ((a[1] - o[1]) * (b[2] - o[2])) - ((a[2] - o[2]) * (b[1] - o[1]))

\* the point lies in the interior of the convex ring (not on its boundary)
StrictlyInside(pt, ring) ==
  \/ \A i \in 1..(Len(ring) - 1) : ring[i] = ring[i + 1] \/ Cross(ring[i], ring[i + 1], pt) > 0
  \/ \A i \in 1..(Len(ring) - 1) : ring[i] = ring[i + 1] \/ Cross(ring[i], ring[i + 1], pt) < 0

\* polygon.contains(point): OGC contains, a point of the boundary is not contained
GdalContains(geojson, pt) ==
  \E r \in 1..Len(OuterRings(geojson)) : StrictlyInside(pt, OuterRings(geojson)[r])

\* combinedGeometry.union(...) over the geocoded geometries, as its parts
GdalUnion(geojsons) ==
  LET RECURSIVE Rings(_)
      Rings(i) == IF i > Len(geojsons) THEN <<>> ELSE OuterRings(geojsons[i]) \o Rings(i + 1)
  IN  MultiPolygon(Rings(1))

\* !combinedGeometry.isEmpty() && combinedGeometry.getArea() > 0
GdalHasArea(geojson) ==
  \E r \in 1..Len(OuterRings(geojson)) : ShoelaceTwice(OuterRings(geojson)[r]) # 0

(***************************************************************************)
(* generateHexagonPolygons.  Sizes in units of 0.00001 degrees: hexSize    *)
(* from resolutionToSize, HexWidth = sqrt(3) * hexSize and HexHalfWidth =  *)
(* hexSize * cos(30 deg), both rounded to the unit.                        *)
(***************************************************************************)
Resolutions == {7, 8, 9, 10, 11}

resolutionToSize == [r \in Resolutions |->
  CASE r = 7 -> 1100 [] r = 8 -> 410 [] r = 9 -> 150 [] r = 10 -> 58 [] r = 11 -> 22]

HexWidthOf == [r \in Resolutions |->
  CASE r = 7 -> 1905 [] r = 8 -> 710 [] r = 9 -> 260 [] r = 10 -> 100 [] r = 11 -> 38]

HexHalfWidthOf == [r \in Resolutions |->
  CASE r = 7 -> 953 [] r = 8 -> 355 [] r = 9 -> 130 [] r = 10 -> 50 [] r = 11 -> 19]

\* resolutionToSize[resolution] || resolutionToSize[8]
EffectiveResolution(resolution) == IF resolution \in Resolutions THEN resolution ELSE 8

\* the mutant: a hexagon of half the edge length
HexRingHalf(cx, cy, res) ==
  LET s == resolutionToSize[res] \div 2
      h == HexHalfWidthOf[res] \div 2
  IN  << <<cx + h, cy + (s \div 2)>>, <<cx, cy + s>>, <<cx - h, cy + (s \div 2)>>,
         <<cx - h, cy - (s \div 2)>>, <<cx, cy - s>>, <<cx + h, cy - (s \div 2)>>,
         <<cx + h, cy + (s \div 2)>> >>

\* lines 347-355: six vertices at 30, 90, ..., 330 degrees and the closing one
HexRing(cx, cy, res) ==
  LET s == resolutionToSize[res]
      h == HexHalfWidthOf[res]
  IN  << <<cx + h, cy + (s \div 2)>>, <<cx, cy + s>>, <<cx - h, cy + (s \div 2)>>,
         <<cx - h, cy - (s \div 2)>>, <<cx, cy - s>>, <<cx + h, cy - (s \div 2)>>,
         <<cx + h, cy + (s \div 2)>> >>

\* lines 339-380: the lattice scan over the envelope, rows from minY, columns
\* from minX, keeping the hexagons that share area with the polygon
generateHexagonPolygons(geojson, resolution) ==
  LET res       == EffectiveResolution(resolution)
      hexSize   == resolutionToSize[res]
      hexWidth  == HexWidthOf[res]
      hexHeight == 2 * hexSize
      rowStep   == (hexHeight * 3) \div 4
      env       == GdalEnvelope(geojson)
      nRows     == ((env.maxY + (hexHeight \div 2) - env.minY) \div rowStep) + 1
      nCols     == ((env.maxX + HexHalfWidthOf[res] - env.minX) \div hexWidth) + 1
      Cell(n)   ==
        LET row     == (n - 1) \div nCols
            col     == (n - 1) % nCols
            offsetX == (row % 2) * HexHalfWidthOf[res]
            centerX == env.minX + (col * hexWidth) + offsetX
            centerY == env.minY + (row * rowStep)
        IN  [geometry |-> Polygon(HexRing(centerX, centerY, res)),
             center   |-> [latitude |-> centerY, longitude |-> centerX]]
      Accepted(hex) == GdalIntersectionHasArea(hex.geometry.coordinates[1], geojson)
  IN  SelectSeq([n \in 1..(nRows * nCols) |-> Cell(n)], Accepted)

(***************************************************************************)
(* Store records and the filters of kml-generator.js.  A string that the   *)
(* code searches or sorts (store_name) is its sequence of character codes; *)
(* a postal code is a sequence of digits and hyphens (Hyphen).             *)
(***************************************************************************)
Hyphen == 45

\* the fields the code reads; rev stands for the other attributes of the payload
Store(id, name, lat, lng, services, rev) ==
  [map_store_id |-> id, store_name |-> name, latitude |-> lat, longitude |-> lng,
   service_id |-> services, postal_code |-> <<>>, rev |-> rev]

\* a service_id that is an array, and one that is missing
ServiceArray(items) == [isArray |-> TRUE, items |-> items]
NoServices == [isArray |-> FALSE, items |-> <<>>]

\* { ...store, ...details }: the fields of details override those of store
Spread(store, details) ==
  [f \in DOMAIN store \cup DOMAIN details |->
     IF f \in DOMAIN details THEN details[f] ELSE store[f]]

\* name.includes(excluded)
Includes(name, excluded) ==
  \E i \in 0..(Len(name) - Len(excluded)) : SubSeq(name, i + 1, i + Len(excluded)) = excluded

\* two chain names stand for the list of lines 480-485
EXCLUDE_STORE_NAMES_CONTAINING == { <<7, 11>>, <<9>> }

filterExcludedStores(stores) ==
  LET Kept(store) ==
        ~\E excluded \in EXCLUDE_STORE_NAMES_CONTAINING : Includes(store.store_name, excluded)
  IN  SelectSeq(stores, Kept)

filterRpayStores(stores) ==
  LET Kept(store) ==
        /\ store.service_id.isArray
        /\ \E i \in 1..Len(store.service_id.items) : store.service_id.items[i] = "rpay"
  IN  SelectSeq(stores, Kept)

\* postalCode.replace(/-/g, '')
RemoveHyphens(code) == LET NotHyphen(c) == c # Hyphen IN SelectSeq(code, NotHyphen)

filterStoresByPostalCode(stores, postalCode) ==
  LET normalized == RemoveHyphens(postalCode)
      Kept(store) ==
        /\ store.postal_code # <<>>
        /\ RemoveHyphens(store.postal_code[1]) = normalized
  IN  SelectSeq(stores, Kept)

\* the mutant: the containment test is left out
filterStoresByGeoJSONKeepsAll(stores, geojson) == stores

\* the stores of the model all have numeric coordinates
filterStoresByGeoJSON(stores, geojson) ==
  LET Kept(store) == GdalContains(geojson, <<store.longitude, store.latitude>>)
  IN  SelectSeq(stores, Kept)

(***************************************************************************)
(* A JS Map keyed by map_store_id, as the sequence of its values in        *)
(* insertion order: set() on a key already present replaces the value in   *)
(* place.                                                                  *)
(***************************************************************************)
MapHas(m, key) == \E i \in 1..Len(m) : m[i].map_store_id = key

MapSet(m, store) ==
  IF MapHas(m, store.map_store_id)
  THEN [i \in 1..Len(m) |->
          IF m[i].map_store_id = store.map_store_id THEN store ELSE m[i]]
  ELSE Append(m, store)

\* the mutant: no deduplication, every fetched store is kept
RECURSIVE UniqueStoresMapKeepsAll(_, _)
UniqueStoresMapKeepsAll(allFetchedStores, m) ==
  IF allFetchedStores = <<>> THEN m
  ELSE UniqueStoresMapKeepsAll(Tail(allFetchedStores),
         IF Head(allFetchedStores).map_store_id # 0
         THEN Append(m, Head(allFetchedStores)) ELSE m)

\* getAllStores, lines 681-686: stores with a falsy map_store_id are dropped
RECURSIVE UniqueStoresMap(_, _)
UniqueStoresMap(allFetchedStores, m) ==
  IF allFetchedStores = <<>> THEN m
  ELSE UniqueStoresMap(Tail(allFetchedStores),
         IF Head(allFetchedStores).map_store_id # 0
         THEN MapSet(m, Head(allFetchedStores)) ELSE m)

\* fetchStoresWithHexagonalGrid, lines 101-106: the first store of an id is kept
RECURSIVE MergeFirstWins(_, _)
MergeFirstWins(allStores, stores) ==
  IF stores = <<>> THEN allStores
  ELSE MergeFirstWins(IF ~MapHas(allStores, Head(stores).map_store_id)
                      THEN MapSet(allStores, Head(stores)) ELSE allStores,
                      Tail(stores))

\* fetchStoresWithGridSearch, lines 30-32: the last store of an id is kept
RECURSIVE MergeLastWins(_, _)
MergeLastWins(allStores, stores) ==
  IF stores = <<>> THEN allStores
  ELSE MergeLastWins(MapSet(allStores, Head(stores)), Tail(stores))

\* main, lines 1189-1197: the first store of each id is kept
RECURSIVE FilterUniqueIds(_, _)
FilterUniqueIds(stores, uniqueStoreIds) ==
  IF stores = <<>> THEN <<>>
  ELSE IF Head(stores).map_store_id \in uniqueStoreIds
       THEN FilterUniqueIds(Tail(stores), uniqueStoreIds)
       ELSE <<Head(stores)>> \o
            FilterUniqueIds(Tail(stores), uniqueStoreIds \cup {Head(stores).map_store_id})

\* a.store_name.localeCompare(b.store_name) < 0, on character codes
RECURSIVE NameBefore(_, _)
NameBefore(a, b) ==
  IF b = <<>> THEN FALSE
  ELSE IF a = <<>> THEN TRUE
  ELSE IF Head(a) # Head(b) THEN Head(a) < Head(b)
  ELSE NameBefore(Tail(a), Tail(b))

\* filteredStores.sort(...): Array.prototype.sort is stable
RECURSIVE SortByName(_)
SortByName(stores) ==
  IF stores = <<>> THEN <<>>
  ELSE LET sorted == SortByName(Tail(stores))
           x      == Head(stores)
           ahead  == { i \in 1..Len(sorted) : NameBefore(sorted[i].store_name, x.store_name) }
           k      == IF ahead = {} THEN 0 ELSE SetMax(ahead)
       IN  SubSeq(sorted, 1, k) \o <<x>> \o SubSeq(sorted, k + 1, Len(sorted))

(***************************************************************************)
(* The probe coordinates of the two grid aggregators.                      *)
(***************************************************************************)
\* GRID_SPACING = 0.01 and the default spacing of generateHexagonalGrid
GRID_SPACING == 1000

\* Math.cos(centerLat * Math.PI / 180) in thousandths, for the latitudes modelled
CosMilli(lat) == IF lat = 0 THEN 1000 ELSE 811

\* six times the first direction
HexDirectionsOneWay == [side \in 1..6 |-> [q |-> 0, r |-> -1]]

\* the six directions of lines 41-48, by side
HexDirections ==
  << [q |-> 0, r |-> -1], [q |-> -1, r |-> 0], [q |-> -1, r |-> 1],
     [q |-> 0, r |-> 1], [q |-> 1, r |-> 0], [q |-> 1, r |-> -1] >>

\* the axial coordinates generateHexagonalGrid walks through, ring by ring
RECURSIVE HexWalk(_, _, _, _, _, _)
HexWalk(rings, ring, side, step, q, r) ==
  IF ring > rings THEN <<>>
  ELSE IF side > 6 THEN HexWalk(rings, ring + 1, 1, 1, ring + 1, 0)
  ELSE IF step > ring THEN HexWalk(rings, ring, side + 1, 1, q, r)
  ELSE <<[q |-> q, r |-> r]>> \o
       HexWalk(rings, ring, side, step + 1,
               q + HexDirections[side].q, r + HexDirections[side].r)

generateHexagonalGrid(centerLat, centerLng, rings, spacing) ==
  LET walk == <<[q |-> 0, r |-> 0]>> \o HexWalk(rings, 1, 1, 1, 1, 0)
  IN  [i \in 1..Len(walk) |->
         [lat |-> centerLat + (walk[i].q * spacing),
          lng |-> centerLng +
                  ((((2 * walk[i].r) + walk[i].q) * spacing * CosMilli(centerLat)) \div 2000)]]

\* the search points of fetchStoresWithGridSearch, lines 15-21, row by row
GridSearchPoints(centerLat, centerLng, gridSize) ==
  [n \in 1..(gridSize * gridSize) |->
     LET i == (n - 1) \div gridSize
         j == (n - 1) % gridSize
     IN  [lat |-> centerLat + ((i - (gridSize \div 2)) * GRID_SPACING),
          lng |-> centerLng + ((j - (gridSize \div 2)) * GRID_SPACING)]]

(***************************************************************************)
(* State.                                                                  *)
(***************************************************************************)
VARIABLES
  tourPc,      \* "idle" | "loop" | "returned": position in orderStoresNearestNeighbor
  tourStores,  \* the argument stores
  tourStart,   \* <<startLat, startLng>>, each optional
  tour,        \* [ordered, remaining, currentLat, currentLng] of the running call
  tourResult   \* the returned array

VARIABLES
  req,             \* the request: the entry point called and its arguments
  pc,              \* position of main: "start" | "fetch" | "done" | "exit0" | "exit1" | "none"
  center,          \* <<centerLat, centerLng>> of main, each optional
  hexagonPolygons, \* main: the tessellation
  centerPoints,    \* main: the points handed to getAllStores
  cache,           \* the cache file of the request's key
  aggPc,           \* position of the aggregator: "idle" | "called" | "issue" | "await" |
                   \*   "pace" | "returned" | "rejected"
  points,          \* pointsToFetch / gridPoints: the coordinates to probe
  probeLog,        \* the coordinates probed so far, in the order of the calls
  inflight,        \* the positions in probeLog of the probes without an outcome yet
  fetched,         \* allFetchedStores (getAllStores) or the values of allStores (grids)
  succeeded,       \* number of probes that returned
  waited,          \* the 500 ms timer has run out since the last probe outcome
  unpacedIssue,    \* some probe after the first was issued with waited false
  lastPayloads,    \* per map_store_id, the store as the latest probe returned it
  detailRequests,  \* number of calls of fetchStoreDetails
  retval,          \* what the aggregator returned
  filteredStores,  \* main: filteredStores
  orderedStores    \* main: orderedStores, as written to the KML file

VARIABLES
  geoPc,         \* "centroid" | "tessellate": the call to make; then "hasCentroid" | "hasCells"
  geoInput,      \* the GeoJSON geometry passed to the call
  geoResolution, \* the resolution passed to generateHexagonPolygons
  geoCentroid,   \* what calculateCentroid returned: <<>> or <<<<lon, lat>>>>
  geoCells       \* what generateHexagonPolygons returned

tourVars == <<tourPc, tourStores, tourStart, tour, tourResult>>

mainVars == <<req, pc, center, hexagonPolygons, centerPoints, filteredStores, orderedStores>>

aggVars == <<cache, aggPc, points, probeLog, inflight, fetched, succeeded, waited,
             unpacedIssue, lastPayloads, detailRequests, retval>>

VARIABLES
  callPc,     \* "idle" | "grid" | "kml": the function to call; then "hasGrid" | "hasKml"
  callArgs,   \* the arguments of the call
  callResult  \* what the call returned

VARIABLES
  inbox,          \* the request messages posted to the TSP worker and not yet delivered
  handled,        \* the number of request messages delivered to self.onmessage
  workerPc,       \* "wait" | "loop" | "return": position of the worker
  distanceMatrix, \* e.data of the request being handled
  unvisited,      \* nearestNeighborTsp: the cities not yet on the path
  path,           \* nearestNeighborTsp: the path
  currentCity,    \* nearestNeighborTsp: the city the path ends at
  posted          \* the messages the worker posted, each with the request it belongs to

VARIABLES
  localStorageTimestamp,  \* localStorage item postal_data_ken_all_rome_timestamp:
                          \*   <<>> or <<age in hours>>
  database,               \* the records of the object store of PostalDataDB
  postalCodeAddressCache, \* <<>> for null, or <<postal data>>
  loadPc,                 \* position of fetchAndCachePostalData: "none" | "start" | "fetch" |
                          \*   "save" | "stamp" | "done" | "read" | "assign" | "cached" | "failed"
  loadData,               \* its local postalData, or what its getDataFromDB call read
  lookupPc,               \* position of a getDataFromDB call of the page: "idle" | "read" |
                          \*   "assign" | "returned"
  lookupRecords,          \* allRecords of that call
  lookupReturned,         \* what the last such call returned
  lookupAfterLoad,        \* that call started after the load had completed
  lookupCount,            \* the number of such calls so far
  clearPc,                \* position of clearAllCache: "idle" | "pending" | "resolved" |
                          \*   "rejected" | "reloaded"
  clearBefore,            \* timestamp, database and in-memory cache when it was called
  clearAfter              \* the same when it settled

VARIABLES
  queryBtnDisabled,     \* queryBtn.disabled
  getCenterBtnDisabled, \* getCenterBtn.disabled
  map,                  \* the Leaflet map exists
  coordinateInputs,     \* "typed" | "mapCenter": where lonInput/latInput come from
  sparqlInFlight,       \* the SPARQL requests without an outcome yet
  queryCount,           \* the number of executeQuery calls so far
  resultDiv,            \* what resultDiv shows: "prompt" | "loading" | "warning" |
                        \*   "success" | "parseError" | "danger"
  candidateLookups      \* the postal-code lookups of lines 187 and 199 not yet settled

geoVars == <<geoPc, geoInput, geoResolution, geoCentroid, geoCells>>

callVars == <<callPc, callArgs, callResult>>

workerVars == <<inbox, handled, workerPc, distanceMatrix, unvisited, path, currentCity,
                posted>>

postalVars == <<localStorageTimestamp, database, postalCodeAddressCache, loadPc, loadData,
                lookupPc, lookupRecords, lookupReturned, lookupAfterLoad, lookupCount,
                clearPc, clearBefore, clearAfter>>

queryVars == <<queryBtnDisabled, getCenterBtnDisabled, map, coordinateInputs,
               sparqlInFlight, queryCount, resultDiv, candidateLookups>>

browserVars == <<workerVars, postalVars, queryVars>>

vars == <<tourVars, mainVars, aggVars, geoVars, callVars, browserVars>>

(***************************************************************************)
(* Inputs of the tour builder.                                             *)
(***************************************************************************)
TourStore(id, lat, lng) == [map_store_id |-> id, latitude |-> lat, longitude |-> lng]

TourUniverse ==
  { TourStore(1, 50, 0), TourStore(2, 50, 100), TourStore(3, 0, 50),
    TourStore(4, 100, 100), TourStore(5, 150, 150) }

RECURSIVE DistinctSeqs(_, _)
DistinctSeqs(S, n) ==
  IF n = 0 THEN {<<>>}
  ELSE LET shorter == DistinctSeqs(S, n - 1)
       IN  shorter \cup
           { Append(s, x) : <<s, x>> \in
               { p \in shorter \X S :
                   /\ Len(p[1]) = n - 1
                   /\ \A i \in 1..Len(p[1]) : p[1][i].map_store_id # p[2].map_store_id } }

StartValues == {<<>>, <<0>>, <<50>>}

TourIdleTour == [ordered |-> <<>>, remaining |-> <<>>, currentLat |-> 0, currentLng |-> 0]

\* no call of a geometry function is made
GeoIdle ==
  /\ geoPc = "idle"
  /\ geoInput = <<>>
  /\ geoResolution = 0
  /\ geoCentroid = <<>>
  /\ geoCells = <<>>

\* no function is called on its own
CallIdle ==
  /\ callPc = "idle"
  /\ callArgs = <<>>
  /\ callResult = <<>>

\* the TSP worker has no request
WorkerIdle ==
  /\ inbox = <<>>
  /\ handled = 0
  /\ workerPc = "wait"
  /\ distanceMatrix = <<>>
  /\ unvisited = {}
  /\ path = <<>>
  /\ currentCity = 0
  /\ posted = <<>>

\* postalDataService.js is not loaded
PostalIdle ==
  /\ localStorageTimestamp = <<>>
  /\ database = {}
  /\ postalCodeAddressCache = <<>>
  /\ loadPc = "none"
  /\ loadData = {}
  /\ lookupPc = "idle"
  /\ lookupRecords = {}
  /\ lookupReturned = {}
  /\ lookupAfterLoad = FALSE
  /\ lookupCount = 0
  /\ clearPc = "idle"
  /\ clearBefore = <<>>
  /\ clearAfter = <<>>

\* query.html as loaded, no query made
QueryIdle ==
  /\ queryBtnDisabled = FALSE
  /\ getCenterBtnDisabled = FALSE
  /\ map = FALSE
  /\ coordinateInputs = "typed"
  /\ sparqlInFlight = 0
  /\ queryCount = 0
  /\ resultDiv = "prompt"
  /\ candidateLookups = 0

\* no page is open in a browser
BrowserIdle == WorkerIdle /\ PostalIdle /\ QueryIdle

\* no request is running
PipelineIdle ==
  /\ req = [entry |-> "none"]
  /\ pc = "none"
  /\ center = <<<<>>, <<>>>>
  /\ hexagonPolygons = <<>>
  /\ centerPoints = <<>>
  /\ cache = [exists |-> FALSE, age |-> 0, readable |-> FALSE, stores |-> <<>>]
  /\ aggPc = "idle"
  /\ points = <<>>
  /\ probeLog = <<>>
  /\ inflight = {}
  /\ fetched = <<>>
  /\ succeeded = 0
  /\ waited = FALSE
  /\ unpacedIssue = FALSE
  /\ lastPayloads = <<>>
  /\ detailRequests = 0
  /\ retval = <<>>
  /\ filteredStores = <<>>
  /\ orderedStores = <<>>

TourInit ==
  /\ tourPc = "idle"
  /\ tourStores \in DistinctSeqs(TourUniverse, MaxStores)
  /\ tourStart \in StartValues \X StartValues
  /\ tour = TourIdleTour
  /\ tourResult = <<>>
  /\ PipelineIdle
  /\ GeoIdle
  /\ CallIdle
  /\ BrowserIdle

\* lines 831-832: the early returns
TourReturnEarly ==
  /\ tourPc = "idle"
  /\ Len(tourStores) <= 1
  /\ tourPc' = "returned"
  /\ tourResult' = tourStores
  /\ UNCHANGED <<tourStores, tourStart, tour, mainVars, aggVars, geoVars, callVars, browserVars>>

\* lines 834-844
TourEnter ==
  /\ tourPc = "idle"
  /\ Len(tourStores) > 1
  /\ tour' = TourEntry(tourStores, tourStart[1], tourStart[2])
  /\ tourPc' = "loop"
  /\ UNCHANGED <<tourStores, tourStart, tourResult, mainVars, aggVars, geoVars, callVars, browserVars>>

\* lines 846-862
TourStep ==
  /\ tourPc = "loop"
  /\ Len(tour.remaining) > 0
  /\ tour' = TourIterate(tour)
  /\ UNCHANGED <<tourPc, tourStores, tourStart, tourResult, mainVars, aggVars, geoVars, callVars, browserVars>>

\* line 864
TourReturn ==
  /\ tourPc = "loop"
  /\ Len(tour.remaining) = 0
  /\ tourPc' = "returned"
  /\ tourResult' = tour.ordered
  /\ UNCHANGED <<tourStores, tourStart, tour, mainVars, aggVars, geoVars, callVars, browserVars>>

TourNext == TourReturnEarly \/ TourEnter \/ TourStep \/ TourReturn

SpecTour == TourInit /\ [][TourNext]_vars

(***************************************************************************)
(* The requests, the probe responses and the detail responses modelled.    *)
(***************************************************************************)
\* largest rings argument of fetchStoresWithHexagonalGrid
MaxRings == 1

\* largest gridSize argument of fetchStoresWithGridSearch
MaxGridSize == 2

Space == 32

RectRing(x1, y1, x2, y2) ==
  << <<x1, y1>>, <<x2, y1>>, <<x2, y2>>, <<x1, y2>>, <<x1, y1>> >>

\* boundaries: two overlapping parts of an area, a wider postal area, and a
\* part of no area
BoundaryA == Polygon(RectRing(0, 0, 125, 125))
BoundaryB == Polygon(RectRing(75, 0, 200, 125))
BoundaryWide == Polygon(RectRing(0, 0, 375, 125))
BoundarySliver ==
  Polygon(<< <<0, 50>>, <<125, 50>>, <<250, 50>>, <<125, 50>>, <<0, 50>> >>)

AreaCode == <<1, 3, 1, 0, 1>>
PostalCode == <<1, 0, 0, Hyphen, 0, 0, 0, 1>>
PostalCodePlain == <<1, 0, 0, 0, 0, 0, 1>>
OtherPostalCode == <<3, 3, 5, Hyphen, 0, 0, 1, 6>>

Rpay == ServiceArray(<<"point", "rpay">>)

\* id 1 lies in BoundaryA and BoundaryB and comes with two payloads, id 2 lies
\* outside every boundary, id 3 lies in BoundaryA only, id 4 is of an
\* excluded chain, id 5 has no rpay service, and one store has a falsy id
S1  == Store(1, <<2, 5>>, 50, 100, Rpay, 1)
S1b == Store(1, <<2, 5>>, 50, 100, Rpay, 2)
S2  == Store(2, <<1, 3>>, 150, 150, Rpay, 1)
S3  == Store(3, <<4>>, 100, 50, Rpay, 1)
S4  == Store(4, <<1, 7, 11>>, 50, 50, Rpay, 1)
S5  == Store(5, <<6>>, 50, 50, NoServices, 1)
S0  == Store(0, <<8>>, 50, 50, Rpay, 1)

\* what one successful call of the point search may return
ProbeResponses == { <<>>, <<S1, S2>>, <<S1b, S3, S4, S5, S0>> }

\* the JSON of /store/{id}: the postal code arrives with it, and for id 3 a
\* store_name that is longer than the one of the list payload
StoreDetails(id) ==
  CASE id = 1 -> [postal_code |-> <<PostalCode>>]
    [] id = 2 -> [postal_code |-> <<PostalCodePlain>>]
    [] id = 3 -> [postal_code |-> <<OtherPostalCode>>, store_name |-> <<4, 9>>]
    [] OTHER  -> [postal_code |-> <<OtherPostalCode>>]

GeocodeNull == [ok |-> FALSE, geometries |-> <<>>]
Geocoded(geometries) == [ok |-> TRUE, geometries |-> geometries]

MainRequest(code, postalInfo, geocode, resolution, centerOption, cacheOption) ==
  [entry |-> "main", code |-> code, postalInfo |-> postalInfo, geocode |-> geocode,
   resolution |-> resolution, centerOption |-> centerOption, cacheOption |-> cacheOption,
   noOptimizeFlag |-> FALSE]

\* the same command line with --no-optimize
WithNoOptimize(request) == [request EXCEPT !.noOptimizeFlag = TRUE]

\* what commander makes of the flags: a negatable option --no-optimize is
\* stored under the name optimize (true unless the flag is given), and no
\* property noOptimize is ever set
ParsedOptions(request) ==
  [optimize |-> ~request.noOptimizeFlag, noOptimize |-> <<>>]

NoCenter == <<<<>>, <<>>>>

\* a code of each length from 4 to 13 digits, the longer ones small-area codes
SmallAreaCode == <<1, 3, 1, 0, 1, 0, 0, 0, 1, 0, 0, 1, 0>>

CodesOfLength == { SubSeq(SmallAreaCode, 1, n) : n \in 4..13 }

MainRequests ==
  { MainRequest(AreaCode, FALSE, g, 8, NoCenter, c) :
      g \in { GeocodeNull, Geocoded(<<>>), Geocoded(<<BoundaryA, BoundaryB>>),
              Geocoded(<<BoundarySliver>>) },
      c \in BOOLEAN }
  \cup
  { MainRequest(PostalCode, TRUE, g, r, NoCenter, c) :
      g \in { GeocodeNull, Geocoded(<<BoundaryA>>), Geocoded(<<BoundaryWide>>) },
      r \in {8, 9}, c \in BOOLEAN }
  \cup
  { MainRequest(PostalCode, i, GeocodeNull, 8, o, FALSE) :
      i \in BOOLEAN, o \in { NoCenter, <<<<100>>, <<100>>>> } }
  \cup
  { MainRequest(PostalCode, TRUE, Geocoded(<<BoundarySliver>>), 8, NoCenter, FALSE),
    WithNoOptimize(MainRequest(PostalCode, TRUE, Geocoded(<<BoundaryA>>), 8, NoCenter,
                               FALSE)) }
  \cup
  { MainRequest(code, FALSE, GeocodeNull, 8, NoCenter, FALSE) :
      code \in { <<1, 2, 3, 4, 5, 6>>, <<1, 3, 1, 0, 1, 0, 0, 0, 1, 0>>,
                 <<1, 3, Space, 1, 0, 1>> } }
  \cup
  { MainRequest(code, FALSE, Geocoded(<<BoundarySliver>>), 8, NoCenter, FALSE) :
      code \in CodesOfLength }

GridRequests ==
  { [entry |-> "hex", centerLat |-> 3581770, centerLng |-> 13967970, rings |-> n,
     spacing |-> GRID_SPACING] : n \in 0..MaxRings }
  \cup
  { [entry |-> "grid", centerLat |-> 3581770, centerLng |-> 13967970, gridSize |-> n] :
      n \in 1..MaxGridSize }

\* an earlier run's cache file: what getAllStores writes for one store
CachedStores == <<Spread(S1, StoreDetails(1))>>

\* 24 * 60 * 60 * 1000 ms, in hours; the age of a cache file is in hours too
CACHE_EXPIRY_MS == 24

CacheAbsent == [exists |-> FALSE, age |-> 0, readable |-> FALSE, stores |-> <<>>]
CacheFile(age, readable) ==
  [exists |-> TRUE, age |-> age, readable |-> readable, stores |-> CachedStores]

TourIdle ==
  /\ tourPc = "idle"
  /\ tourStores = <<>>
  /\ tourStart = NoCenter
  /\ tour = TourIdleTour
  /\ tourResult = <<>>

Init ==
  /\ req \in MainRequests \cup GridRequests
  /\ pc = IF req.entry = "main" THEN "start" ELSE "none"
  /\ aggPc = IF req.entry = "main" THEN "idle" ELSE "called"
  /\ cache \in IF req.entry = "main"
               THEN { CacheAbsent, CacheFile(CACHE_EXPIRY_MS - 1, TRUE),
                      CacheFile(CACHE_EXPIRY_MS, TRUE),
                      CacheFile(CACHE_EXPIRY_MS - 1, FALSE) }
               ELSE { CacheAbsent }
  /\ center = NoCenter
  /\ hexagonPolygons = <<>>
  /\ centerPoints = <<>>
  /\ points = <<>>
  /\ probeLog = <<>>
  /\ inflight = {}
  /\ fetched = <<>>
  /\ succeeded = 0
  /\ waited = FALSE
  /\ unpacedIssue = FALSE
  /\ lastPayloads = <<>>
  /\ detailRequests = 0
  /\ retval = <<>>
  /\ filteredStores = <<>>
  /\ orderedStores = <<>>
  /\ TourIdle
  /\ GeoIdle
  /\ CallIdle
  /\ BrowserIdle

(***************************************************************************)
(* main, up to the call of getAllStores.                                   *)
(***************************************************************************)
\* code.replace(/[-\s]/g, '')
NormalizeCode(code) ==
  LET Kept(c) == c # Hyphen /\ c # Space IN SelectSeq(code, Kept)

isPostalCode(normalizedCode) == Len(normalizedCode) = 7

isAreaCode(normalizedCode) == Len(normalizedCode) \in {5, 9, 11}

\* getCacheFilePath, lines 505-515: cacheType
CacheTypeOf(code) ==
  LET normalized == NormalizeCode(code)
  IN  IF Len(normalized) = 7 THEN "postal"
      ELSE IF Len(normalized) = 5 \/ (Len(normalized) >= 9 /\ Len(normalized) <= 12)
           THEN "area"
      ELSE "other"

\* geocodeAreaCode, lines 131 and 163: the lengths it has a query for
GeocodeAreaCodeHasQuery(areaCode) ==
  LET normalized == NormalizeCode(areaCode)
  IN  Len(normalized) = 5 \/ (Len(normalized) >= 9 /\ Len(normalized) <= 12)

\* geocodeAreaCode / geocodePostalCode: a result per geometry, with its centroid
GeocodeResults(geocode) ==
  [i \in 1..Len(geocode.geometries) |->
     LET c == calculateCentroid(geocode.geometries[i])
     IN  [latitude |-> c[2], longitude |-> c[1], geojson |-> geocode.geometries[i]]]

PointAt(lat, lng) == [latitude |-> <<lat>>, longitude |-> <<lng>>]

\* lines 1127-1134: the vertices of every hexagon but the closing one
RECURSIVE HexagonVertices(_)
HexagonVertices(hexagons) ==
  IF hexagons = <<>> THEN <<>>
  ELSE LET vertices == Head(hexagons).geometry.coordinates[1]
       IN  [i \in 1..(Len(vertices) - 1) |-> PointAt(vertices[i][2], vertices[i][1])]
           \o HexagonVertices(Tail(hexagons))

\* lines 1243: hexagonPolygons.map(h => h.center)
HexagonCenters(hexagons) ==
  [i \in 1..Len(hexagons) |-> PointAt(hexagons[i].center.latitude,
                                       hexagons[i].center.longitude)]

\* lines 1064-1179: the area-code branch
MainStartArea ==
  LET geocodeResults == GeocodeResults(req.geocode)
      combined == GdalUnion(req.geocode.geometries)
      hexagons == IF GdalHasArea(combined)
                  THEN generateHexagonPolygons(combined, req.resolution)
                  ELSE <<>>
      fromHexagons == HexagonVertices(hexagons)
  IN  IF ~req.geocode.ok \/ Len(geocodeResults) = 0
      THEN /\ pc' = "exit1"
           /\ UNCHANGED <<center, hexagonPolygons, centerPoints, aggPc>>
      ELSE /\ hexagonPolygons' = hexagons
           /\ centerPoints' =
                IF Len(fromHexagons) = 0
                THEN <<PointAt(geocodeResults[1].latitude, geocodeResults[1].longitude)>>
                ELSE fromHexagons
           /\ pc' = "fetch"
           /\ aggPc' = "called"
           /\ UNCHANGED center

\* lines 1217-1280: the postal-code branch
MainStartPostal ==
  LET geocodes == (~JsTruthy(req.centerOption[1]) \/ ~JsTruthy(req.centerOption[2]))
                    /\ req.postalInfo
      geocodeResult == IF geocodes /\ req.geocode.ok
                       THEN GeocodeResults(req.geocode) ELSE <<>>
  IN  /\ center' = IF geocodeResult # <<>>
                   THEN <<<<geocodeResult[1].latitude>>, <<geocodeResult[1].longitude>>>>
                   ELSE req.centerOption
      /\ hexagonPolygons' =
           IF geocodeResult # <<>> /\ req.resolution # 0
           THEN generateHexagonPolygons(geocodeResult[1].geojson, req.resolution)
           ELSE <<>>
      /\ centerPoints' = HexagonCenters(hexagonPolygons')
      /\ pc' = "fetch"
      /\ aggPc' = "called"

\* lines 1055-1057 and 1307-1311
MainStart ==
  /\ req.entry = "main"
  /\ pc = "start"
  /\ LET normalizedCode == NormalizeCode(req.code)
     IN  IF isAreaCode(normalizedCode) THEN MainStartArea
         ELSE IF isPostalCode(normalizedCode) THEN MainStartPostal
         ELSE /\ pc' = "exit1"
              /\ UNCHANGED <<center, hexagonPolygons, centerPoints, aggPc>>
  /\ UNCHANGED <<req, filteredStores, orderedStores, tourVars, geoVars, callVars, browserVars>>
  /\ UNCHANGED <<cache, points, probeLog, inflight, fetched, succeeded, waited,
                 unpacedIssue, lastPayloads, detailRequests, retval>>

(***************************************************************************)
(* The three aggregators: getAllStores, fetchStoresWithHexagonalGrid and   *)
(* fetchStoresWithGridSearch.  A probe is one call of fetchStoresFromAPI.  *)
(***************************************************************************)
\* the default parameters of fetchStoresFromAPI, 35.6812 and 139.7671
DEFAULT_CENTER_LAT == 3568120
DEFAULT_CENTER_LNG == 13976710

\* the coordinate a probe is sent to: getAllStores passes point.latitude and
\* point.longitude, and an undefined argument takes the default; the grids
\* pass point.lat and point.lng
ProbeCoordinate(entry, point) ==
  IF entry = "main"
  THEN [latitude  |-> IF point.latitude = <<>> THEN DEFAULT_CENTER_LAT
                      ELSE point.latitude[1],
        longitude |-> IF point.longitude = <<>> THEN DEFAULT_CENTER_LNG
                      ELSE point.longitude[1]]
  ELSE [latitude |-> point.lat, longitude |-> point.lng]

\* the mutant: a file of exactly the expiry age still counts as valid
isCacheValidInclusive(file) == file.exists /\ file.age <= CACHE_EXPIRY_MS

\* stat succeeds and Date.now() - stats.mtimeMs < CACHE_EXPIRY_MS
isCacheValid(file) == file.exists /\ file.age < CACHE_EXPIRY_MS

\* the mutant: the next call does not wait for the outcome of the last one
ProbeMayIssueNoAwait(position) == position \in {"issue", "await"}

\* the loop calls fetchStoresFromAPI only at the head of an iteration, and
\* each call is awaited
ProbeMayIssue(position) == position = "issue"

\* getAllStores, lines 642-671
GetAllStoresBegin ==
  /\ req.entry = "main"
  /\ aggPc = "called"
  /\ IF req.cacheOption /\ isCacheValid(cache) /\ cache.readable
     THEN /\ retval' = cache.stores
          /\ aggPc' = "returned"
          /\ UNCHANGED points
     ELSE /\ points' = IF Len(centerPoints) > 0 THEN centerPoints
                       ELSE <<[latitude |-> center[1], longitude |-> center[2]]>>
          /\ aggPc' = "issue"
          /\ UNCHANGED retval
  /\ UNCHANGED <<cache, probeLog, inflight, fetched, succeeded, waited, unpacedIssue, lastPayloads, detailRequests>>
  /\ UNCHANGED <<mainVars, tourVars, geoVars, callVars, browserVars>>

\* fetchStoresWithHexagonalGrid, lines 78-90
HexBegin ==
  /\ req.entry = "hex"
  /\ aggPc = "called"
  /\ points' = generateHexagonalGrid(req.centerLat, req.centerLng, req.rings, req.spacing)
  /\ aggPc' = "issue"
  /\ UNCHANGED <<cache, probeLog, inflight, fetched, succeeded, waited, unpacedIssue, lastPayloads, detailRequests, retval>>
  /\ UNCHANGED <<mainVars, tourVars, geoVars, callVars, browserVars>>

\* fetchStoresWithGridSearch, lines 8-21
GridBegin ==
  /\ req.entry = "grid"
  /\ aggPc = "called"
  /\ points' = GridSearchPoints(req.centerLat, req.centerLng, req.gridSize)
  /\ aggPc' = "issue"
  /\ UNCHANGED <<cache, probeLog, inflight, fetched, succeeded, waited, unpacedIssue, lastPayloads, detailRequests, retval>>
  /\ UNCHANGED <<mainVars, tourVars, geoVars, callVars, browserVars>>

\* the call of fetchStoresFromAPI for the next point
ProbeIssue ==
  /\ ProbeMayIssue(aggPc)
  /\ Len(probeLog) < Len(points)
  /\ probeLog' = Append(probeLog, ProbeCoordinate(req.entry, points[Len(probeLog) + 1]))
  /\ inflight' = inflight \cup {Len(probeLog) + 1}
  /\ unpacedIssue' = (unpacedIssue \/ (Len(probeLog) > 0 /\ ~waited))
  /\ waited' = FALSE
  /\ aggPc' = "await"
  /\ UNCHANGED <<cache, points, fetched, succeeded, lastPayloads, detailRequests, retval>>
  /\ UNCHANGED <<mainVars, tourVars, geoVars, callVars, browserVars>>

\* the probe returns stores: getAllStores concatenates and goes on at once;
\* the hexagonal grid keeps the first store of an id and waits unless this
\* was the last point; the grid search keeps the last one and always waits
ProbeSucceed ==
  /\ aggPc = "await"
  /\ \E k \in inflight, stores \in ProbeResponses :
       /\ inflight' = inflight \ {k}
       /\ fetched' =
            CASE req.entry = "main" -> IF Len(stores) > 0 THEN fetched \o stores ELSE fetched
              [] req.entry = "hex"  -> MergeFirstWins(fetched, stores)
              [] req.entry = "grid" -> MergeLastWins(fetched, stores)
       /\ lastPayloads' = MergeLastWins(lastPayloads, stores)
  /\ succeeded' = succeeded + 1
  /\ aggPc' =
       CASE req.entry = "main" -> "issue"
         [] req.entry = "hex"  -> IF Len(probeLog) < Len(points) THEN "pace" ELSE "issue"
         [] req.entry = "grid" -> "pace"
  /\ UNCHANGED <<cache, points, probeLog, waited, unpacedIssue, detailRequests, retval>>
  /\ UNCHANGED <<mainVars, tourVars, geoVars, callVars, browserVars>>

\* the probe throws: getAllStores has no handler and rejects; the grids log
\* the error in their catch block, which is after the wait, and go on
ProbeFail ==
  /\ aggPc = "await"
  /\ \E k \in inflight : inflight' = inflight \ {k}
  /\ aggPc' = IF req.entry = "main" THEN "rejected" ELSE "issue"
  /\ UNCHANGED <<cache, points, probeLog, fetched, succeeded, waited, unpacedIssue, lastPayloads, detailRequests, retval>>
  /\ UNCHANGED <<mainVars, tourVars, geoVars, callVars, browserVars>>

\* setTimeout(resolve, 500) runs out
PaceElapsed ==
  /\ aggPc = "pace"
  /\ waited' = TRUE
  /\ aggPc' = "issue"
  /\ UNCHANGED <<cache, points, probeLog, inflight, fetched, succeeded, unpacedIssue, lastPayloads, detailRequests, retval>>
  /\ UNCHANGED <<mainVars, tourVars, geoVars, callVars, browserVars>>

\* lines 697-708: a store whose detail call failed is kept as it is
WithDetails(stores, failedIds) ==
  [i \in 1..Len(stores) |->
     IF stores[i].map_store_id \in failedIds THEN stores[i]
     ELSE Spread(stores[i], StoreDetails(stores[i].map_store_id))]

\* getAllStores, lines 680-717: the loop is over
GetAllStoresFinish ==
  /\ req.entry = "main"
  /\ aggPc = "issue"
  /\ Len(probeLog) = Len(points)
  /\ LET stores == filterExcludedStores(filterRpayStores(UniqueStoresMap(fetched, <<>>)))
         ids == { stores[i].map_store_id : i \in 1..Len(stores) }
     IN  /\ detailRequests' = detailRequests + Len(stores)
         /\ \E failedIds \in SUBSET ids, written \in BOOLEAN :
           LET storesWithDetails == WithDetails(stores, failedIds)
           IN  IF written
               THEN /\ cache' = [exists |-> TRUE, age |-> 0, readable |-> TRUE,
                                 stores |-> storesWithDetails]
                    /\ retval' = storesWithDetails
                    /\ aggPc' = "returned"
               ELSE /\ aggPc' = "rejected"
                    /\ cache' \in {cache, CacheFile(0, FALSE)}
                    /\ UNCHANGED retval
  /\ UNCHANGED <<points, probeLog, inflight, fetched, succeeded, waited, unpacedIssue,
                 lastPayloads>>
  /\ UNCHANGED <<mainVars, tourVars, geoVars, callVars, browserVars>>

\* fetchStoresWithHexagonalGrid, line 125, and fetchStoresWithGridSearch, line 46
GridFinish ==
  /\ req.entry \in {"hex", "grid"}
  /\ aggPc = "issue"
  /\ Len(probeLog) = Len(points)
  /\ retval' = fetched
  /\ aggPc' = "returned"
  /\ UNCHANGED <<cache, points, probeLog, inflight, fetched, succeeded, waited, unpacedIssue, lastPayloads, detailRequests>>
  /\ UNCHANGED <<mainVars, tourVars, geoVars, callVars, browserVars>>

(***************************************************************************)
(* main, after getAllStores.                                               *)
(***************************************************************************)
RECURSIVE StoresInGeometries(_, _)
StoresInGeometries(allStores, geocodeResults) ==
  IF geocodeResults = <<>> THEN <<>>
  ELSE filterStoresByGeoJSON(allStores, Head(geocodeResults).geojson)
       \o StoresInGeometries(allStores, Tail(geocodeResults))

\* lines 1182-1206 and 1283-1297
MainFinish ==
  /\ req.entry = "main"
  /\ pc = "fetch"
  /\ aggPc = "returned"
  /\ LET normalizedCode == NormalizeCode(req.code)
         filtered ==
           IF isAreaCode(normalizedCode)
           THEN FilterUniqueIds(StoresInGeometries(retval, GeocodeResults(req.geocode)), {})
           ELSE filterStoresByPostalCode(retval, normalizedCode)
     IN  /\ filteredStores' = filtered
         /\ IF Len(filtered) = 0
            THEN pc' = "exit0" /\ UNCHANGED orderedStores
            ELSE /\ pc' = "done"
                 /\ orderedStores' =
                      IF isAreaCode(normalizedCode) THEN SortByName(filtered)
                      ELSE IF ParsedOptions(req).noOptimize = <<TRUE>> THEN filtered
                      ELSE orderStoresNearestNeighbor(filtered, center[1], center[2])
  /\ UNCHANGED <<req, center, hexagonPolygons, centerPoints>>
  /\ UNCHANGED <<aggVars, tourVars, geoVars, callVars, browserVars>>

\* lines 1325-1331: a rejection of getAllStores ends the run
MainCatch ==
  /\ req.entry = "main"
  /\ pc = "fetch"
  /\ aggPc = "rejected"
  /\ pc' = "exit1"
  /\ UNCHANGED <<req, center, hexagonPolygons, centerPoints, filteredStores, orderedStores>>
  /\ UNCHANGED <<aggVars, tourVars, geoVars, callVars, browserVars>>

Next ==
  \/ MainStart
  \/ GetAllStoresBegin
  \/ HexBegin
  \/ GridBegin
  \/ ProbeIssue
  \/ ProbeSucceed
  \/ ProbeFail
  \/ PaceElapsed
  \/ GetAllStoresFinish
  \/ GridFinish
  \/ MainFinish
  \/ MainCatch

Spec == Init /\ [][Next]_vars

(***************************************************************************)
(* The geometry functions called on their own: calculateCentroid on a      *)
(* Polygon or MultiPolygon, generateHexagonPolygons on a boundary and a    *)
(* resolution.                                                             *)
(***************************************************************************)
\* most parts of a MultiPolygon passed to calculateCentroid
MaxParts == 3

\* a counter-clockwise triangle, a rectangle away from the origin, a
\* clockwise square, and a second part without area
BoundaryTriangle == Polygon(<< <<0, 0>>, <<600, 0>>, <<0, 500>>, <<0, 0>> >>)
BoundaryOffset == Polygon(RectRing(40, 30, 300, 420))
BoundaryClockwise ==
  Polygon(<< <<0, 0>>, <<0, 250>>, <<250, 250>>, <<250, 0>>, <<0, 0>> >>)
BoundaryPoint == Polygon(<< <<300, 300>>, <<300, 300>>, <<300, 300>>, <<300, 300>> >>)

\* the square with vertices (0,0), (2,0), (2,2), (0,2) in degrees, closed
SquareOfSideTwo == Polygon(RectRing(0, 0, 200000, 200000))

MultiPolygonParts ==
  { BoundaryA, BoundaryB, BoundaryWide, BoundarySliver, BoundaryClockwise, BoundaryPoint }

RECURSIVE PartSeqs(_)
PartSeqs(n) ==
  IF n = 0 THEN {<<>>}
  ELSE LET shorter == PartSeqs(n - 1)
       IN  shorter \cup
           { Append(q, part) : <<q, part>> \in
               { pair \in shorter \X MultiPolygonParts :
                   /\ Len(pair[1]) = n - 1
                   /\ \A i \in 1..Len(pair[1]) : pair[1][i] # pair[2] } }

CentroidInputs ==
  { BoundaryA, BoundaryWide, BoundarySliver, BoundaryTriangle, BoundaryOffset,
    SquareOfSideTwo }
  \cup { GdalUnion(q) : q \in PartSeqs(MaxParts) \ {<<>>} }

TessellationInputs ==
  { BoundaryA, BoundaryWide, BoundarySliver, BoundaryTriangle, BoundaryOffset,
    GdalUnion(<<BoundaryA, BoundaryB>>) }

\* the supported resolutions and one that is not
TessellationResolutions == Resolutions \cup {12}

GeoInit ==
  /\ \/ /\ geoPc = "centroid"
        /\ geoInput \in CentroidInputs
        /\ geoResolution = 0
     \/ /\ geoPc = "tessellate"
        /\ geoInput \in TessellationInputs
        /\ geoResolution \in TessellationResolutions
  /\ geoCentroid = <<>>
  /\ geoCells = <<>>
  /\ TourIdle
  /\ PipelineIdle
  /\ CallIdle
  /\ BrowserIdle

\* calculateCentroid(geojson)
CallCalculateCentroid ==
  /\ geoPc = "centroid"
  /\ geoCentroid' = <<calculateCentroid(geoInput)>>
  /\ geoPc' = "hasCentroid"
  /\ UNCHANGED <<geoInput, geoResolution, geoCells, tourVars, mainVars, aggVars, callVars, browserVars>>

\* generateHexagonPolygons(geojson, resolution)
CallGenerateHexagonPolygons ==
  /\ geoPc = "tessellate"
  /\ geoCells' = generateHexagonPolygons(geoInput, geoResolution)
  /\ geoPc' = "hasCells"
  /\ UNCHANGED <<geoInput, geoResolution, geoCentroid, tourVars, mainVars, aggVars, callVars, browserVars>>

GeoNext == CallCalculateCentroid \/ CallGenerateHexagonPolygons

SpecGeometry == GeoInit /\ [][GeoNext]_vars

(***************************************************************************)
(* generateHexagonalGrid, hexagonCount and generateKML called on their     *)
(* own.  The KML text is modelled by its elements in document order: a     *)
(* Folder with one Placemark per hexagon, one Placemark per store and the  *)
(* route Placemark.                                                        *)
(***************************************************************************)
MaxGridRings == 3

\* hexagonCount(rings)
hexagonCount(rings) == IF rings = 0 THEN 1 ELSE 1 + (3 * rings * (rings + 1))

\* the characters escapeTags replaces, and the letters of their entities
Ampersand == 38
LessThan == 60
Semicolon == 59
LetterA == 97
LetterL == 108
LetterM == 109
LetterP == 112
LetterT == 116

\* escapeTags(str): '' for a falsy value, else & and < replaced by their
\* entities (the strings modelled hold none of > " ')
RECURSIVE escapeTags(_)
escapeTags(str) ==
  IF str = <<>> THEN <<>>
  ELSE (CASE Head(str) = Ampersand ->
               <<Ampersand, LetterA, LetterM, LetterP, Semicolon>>
          [] Head(str) = LessThan -> <<Ampersand, LetterL, LetterT, Semicolon>>
          [] OTHER -> <<Head(str)>>)
       \o escapeTags(Tail(str))

\* every store placemark with the storePoint style
PlacemarkStyleIdAllStores(index) == "storePoint"

\* lines 988-989: styleId of the placemark at the zero-based index
PlacemarkStyleId(index) == IF index = 0 THEN "startPoint" ELSE "storePoint"

\* lines 954-981: the placemark of one hexagon
HexagonPlacemark(hexagons, i) ==
  [element |-> "Placemark", number |-> i, styleUrl |-> "hexagonStyle",
   geometry |-> "Polygon", coordinates |-> hexagons[i].geometry.coordinates[1]]

\* lines 987-1005: the placemark of one store
StorePlacemark(ordered, i) ==
  [element |-> "Placemark", number |-> i,
   name |-> escapeTags(ordered[i].store_name),
   storeId |-> ordered[i].map_store_id,
   postalCode |-> escapeTags(ordered[i].postal_code),
   position |-> <<i, Len(ordered)>>,
   styleUrl |-> PlacemarkStyleId(i - 1),
   geometry |-> "Point",
   coordinates |-> << <<ordered[i].longitude, ordered[i].latitude>> >>]

\* lines 1008-1024: the route line
RoutePlacemark(ordered) ==
  [element |-> "Placemark", styleUrl |-> "routeLine", geometry |-> "LineString",
   coordinates |-> [i \in 1..Len(ordered) |->
                      <<ordered[i].longitude, ordered[i].latitude>>]]

\* generateKML(orderedStores, { hexagons }): the elements of the document
generateKML(ordered, hexagons) ==
  (IF Len(hexagons) > 0
   THEN <<[element |-> "Folder",
           placemarks |-> [i \in 1..Len(hexagons) |-> HexagonPlacemark(hexagons, i)]]>>
   ELSE <<>>)
  \o [i \in 1..Len(ordered) |-> StorePlacemark(ordered, i)]
  \o (IF Len(ordered) > 1 THEN <<RoutePlacemark(ordered)>> ELSE <<>>)

\* a store whose name has characters to escape
SAmp == Store(6, <<Ampersand, 2, LessThan>>, 100, 150, Rpay, 1)

KmlStores == {S1, S2, S3, SAmp}

KmlHexagons == {<<>>, generateHexagonPolygons(BoundaryA, 8)}

GridCallArgs ==
  { [centerLat |-> lat, centerLng |-> lng, rings |-> n, spacing |-> sp] :
      lat \in {0, 3581770}, lng \in {0, 13967970}, n \in 0..MaxGridRings,
      sp \in {GRID_SPACING, 2 * GRID_SPACING} }

KmlCallArgs ==
  { [orderedStores |-> q, hexagons |-> h] :
      q \in DistinctSeqs(KmlStores, MaxStores), h \in KmlHexagons }

CallInit ==
  /\ \/ callPc = "grid" /\ callArgs \in GridCallArgs
     \/ callPc = "kml" /\ callArgs \in KmlCallArgs
  /\ callResult = <<>>
  /\ TourIdle
  /\ PipelineIdle
  /\ GeoIdle
  /\ BrowserIdle

\* generateHexagonalGrid(centerLat, centerLng, rings, spacing)
CallGenerateHexagonalGrid ==
  /\ callPc = "grid"
  /\ callResult' = generateHexagonalGrid(callArgs.centerLat, callArgs.centerLng,
                                         callArgs.rings, callArgs.spacing)
  /\ callPc' = "hasGrid"
  /\ UNCHANGED <<callArgs, tourVars, mainVars, aggVars, geoVars, browserVars>>

\* generateKML(orderedStores, options)
CallGenerateKML ==
  /\ callPc = "kml"
  /\ callResult' = generateKML(callArgs.orderedStores, callArgs.hexagons)
  /\ callPc' = "hasKml"
  /\ UNCHANGED <<callArgs, tourVars, mainVars, aggVars, geoVars, browserVars>>

CallNext == CallGenerateHexagonalGrid \/ CallGenerateKML

SpecCalls == CallInit /\ [][CallNext]_vars

(***************************************************************************)
(* The TSP web worker: self.onmessage and nearestNeighborTsp.  Cities are  *)
(* 0..n-1 as in the source; row i of the matrix is distanceMatrix[i + 1].  *)
(* A handler runs to completion before the next message is delivered.      *)
(***************************************************************************)
MaxCities == 3

\* a row that is null instead of an array (every array row of a matrix of
\* n > 0 cities has n entries, so the empty sequence is free to stand for it)
NullRow == <<>>

\* distances; Infinity stands for a pair without a connection
DistanceValues == {1, 2, 3, Infinity}

\* the pairs i < j of cities
CityPairs(n) == { p \in (0..(n - 1)) \X (0..(n - 1)) : p[1] < p[2] }

\* the symmetric n x n matrices with a zero diagonal
SymmetricMatrices(n) ==
  { [i \in 1..n |-> [j \in 1..n |->
       IF i = j THEN 0
       ELSE IF i < j THEN d[<<i - 1, j - 1>>] ELSE d[<<j - 1, i - 1>>]]] :
    d \in [CityPairs(n) -> DistanceValues] }

\* e.data of a request: a matrix of up to MaxCities cities, an empty array,
\* or an array of rows that are null
WorkerRequests ==
  UNION { SymmetricMatrices(n) : n \in 0..MaxCities } \cup { <<NullRow, NullRow>> }

\* what may follow the first request: nothing, an empty matrix, two cities
FollowingRequests == { <<>>, << <<>> >>, << << <<0, 2>>, <<2, 0>> >> >> }

\* the message objects the worker posts, each with the number of its request
ProgressMessageZero(request, count, total) ==
  [request |-> request, type |-> "progress", count |-> 0, total |-> total]

ProgressMessage(request, count, total) ==
  [request |-> request, type |-> "progress", count |-> count, total |-> total]

ResultMessage(request, result) ==
  [request |-> request, type |-> "result", result |-> result]

ErrorMessage(request) == [request |-> request, type |-> "error"]

\* the farthest city instead of the nearest
RECURSIVE TspScanFarthest(_, _, _, _)
TspScanFarthest(row, cities, nearestCity, minDistance) ==
  IF cities = {} THEN nearestCity
  ELSE LET city == SetMin(cities)
       IN  IF nearestCity = -1 \/ row[city + 1] > minDistance
           THEN TspScanFarthest(row, cities \ {city}, city, row[city + 1])
           ELSE TspScanFarthest(row, cities \ {city}, nearestCity, minDistance)

\* lines 19-27: the scan of the unvisited set in insertion (ascending) order
RECURSIVE TspScan(_, _, _, _)
TspScan(row, cities, nearestCity, minDistance) ==
  IF cities = {} THEN nearestCity
  ELSE LET city == SetMin(cities)
       IN  IF row[city + 1] < minDistance
           THEN TspScan(row, cities \ {city}, city, row[city + 1])
           ELSE TspScan(row, cities \ {city}, nearestCity, minDistance)

WorkerInit ==
  /\ \E first \in WorkerRequests, more \in FollowingRequests : inbox = <<first>> \o more
  /\ handled = 0
  /\ workerPc = "wait"
  /\ distanceMatrix = <<>>
  /\ unvisited = {}
  /\ path = <<>>
  /\ currentCity = 0
  /\ posted = <<>>
  /\ TourIdle
  /\ PipelineIdle
  /\ GeoIdle
  /\ CallIdle
  /\ PostalIdle
  /\ QueryIdle

\* self.onmessage, lines 46-53, and nearestNeighborTsp up to the loop
WorkerReceive ==
  /\ workerPc = "wait"
  /\ inbox # <<>>
  /\ inbox' = Tail(inbox)
  /\ handled' = handled + 1
  /\ distanceMatrix' = Head(inbox)
  /\ IF Len(Head(inbox)) = 0
     THEN /\ posted' = Append(posted, ResultMessage(handled', <<>>))
          /\ UNCHANGED <<workerPc, unvisited, path, currentCity>>
     ELSE /\ posted' = posted \o
                       << ProgressMessage(handled', 0, Len(Head(inbox))),
                          ProgressMessage(handled', 1, Len(Head(inbox))) >>
          /\ unvisited' = 1..(Len(Head(inbox)) - 1)
          /\ path' = <<0>>
          /\ currentCity' = 0
          /\ workerPc' = "loop"
  /\ UNCHANGED <<tourVars, mainVars, aggVars, geoVars, callVars, postalVars, queryVars>>

\* one pass of the while loop, lines 18-41; reading a null row throws, which
\* the catch of line 55 answers with an error message
WorkerLoopStep ==
  /\ workerPc = "loop"
  /\ unvisited # {}
  /\ IF distanceMatrix[currentCity + 1] = NullRow
     THEN /\ posted' = Append(posted, ErrorMessage(handled))
          /\ workerPc' = "wait"
          /\ UNCHANGED <<unvisited, path, currentCity>>
     ELSE LET nearestCity == TspScan(distanceMatrix[currentCity + 1], unvisited, -1,
                                     Infinity)
          IN  IF nearestCity = -1
              THEN /\ workerPc' = "return"
                   /\ UNCHANGED <<unvisited, path, currentCity, posted>>
              ELSE /\ path' = Append(path, nearestCity)
                   /\ unvisited' = unvisited \ {nearestCity}
                   /\ currentCity' = nearestCity
                   /\ posted' = Append(posted,
                                       ProgressMessage(handled, Len(path'),
                                                       Len(distanceMatrix)))
                   /\ UNCHANGED workerPc
  /\ UNCHANGED <<inbox, handled, distanceMatrix>>
  /\ UNCHANGED <<tourVars, mainVars, aggVars, geoVars, callVars, postalVars, queryVars>>

\* lines 43 and 53-54: the path is returned and posted
WorkerReturn ==
  /\ \/ workerPc = "return"
     \/ workerPc = "loop" /\ unvisited = {}
  /\ posted' = Append(posted, ResultMessage(handled, path))
  /\ workerPc' = "wait"
  /\ UNCHANGED <<inbox, handled, distanceMatrix, unvisited, path, currentCity>>
  /\ UNCHANGED <<tourVars, mainVars, aggVars, geoVars, callVars, postalVars, queryVars>>

WorkerNext == WorkerReceive \/ WorkerLoopStep \/ WorkerReturn

SpecWorker == WorkerInit /\ [][WorkerNext]_vars

(***************************************************************************)
(* postalDataService.js in the page query.html: fetchAndCachePostalData    *)
(* at page load, getDataFromDB calls made by the page's lookups, and       *)
(* clearAllCache from the clear-cache button.  Postal data is a set of     *)
(* <<postalCode, entries>> pairs; every await is a point where the other   *)
(* calls may run.                                                          *)
(***************************************************************************)
MaxLookups == 2

\* cacheDuration, 24 * 60 * 60 * 1000 ms, in hours
cacheDuration == 24

\* what an earlier visit stored, and what the zip file of the server holds now
OldPostalData == { <<"1000001", "old">> }
NetworkPostalData == { <<"1000001", "new">>, <<"1000002", "new">> }

PostalCodesOf(data) == { record[1] : record \in data }

\* saveDataToDB: one put per postal code, keyed by postalCode
saveDataToDB(db, data) ==
  { record \in db : record[1] \notin PostalCodesOf(data) } \cup data

\* getPostalData: postalData[postalCode] || null, null being <<>>
getPostalData(postalData, postalCode) ==
  IF postalCode \in PostalCodesOf(postalData)
  THEN << (CHOOSE record \in postalData : record[1] = postalCode)[2] >>
  ELSE <<>>

\* line 64: cachedTimestamp && (now - cachedTimestamp < cacheDuration)
TimestampFresh(cachedTimestamp) ==
  cachedTimestamp # <<>> /\ cachedTimestamp[1] < cacheDuration

\* the page is loaded on a first visit, or on a later one within or after
\* the 24 hours
PostalInit ==
  /\ \E visit \in { << <<>>, {} >>, << <<1>>, OldPostalData >>,
                     << <<cacheDuration>>, OldPostalData >> } :
       /\ localStorageTimestamp = visit[1]
       /\ database = visit[2]
  /\ postalCodeAddressCache = <<>>
  /\ loadPc = "start"
  /\ loadData = {}
  /\ lookupPc = "idle"
  /\ lookupRecords = {}
  /\ lookupReturned = {}
  /\ lookupAfterLoad = FALSE
  /\ lookupCount = 0
  /\ clearPc = "idle"
  /\ clearBefore = <<>>
  /\ clearAfter = <<>>
  /\ TourIdle
  /\ PipelineIdle
  /\ GeoIdle
  /\ CallIdle
  /\ WorkerIdle
  /\ QueryIdle

PostalFrame == UNCHANGED <<tourVars, mainVars, aggVars, geoVars, callVars, workerVars,
                           queryVars>>

\* fetchAndCachePostalData, lines 59-67
LoadStart ==
  /\ loadPc = "start"
  /\ loadPc' = IF TimestampFresh(localStorageTimestamp)
               THEN IF postalCodeAddressCache # <<>> THEN "cached" ELSE "read"
               ELSE "fetch"
  /\ loadData' = IF TimestampFresh(localStorageTimestamp) /\ postalCodeAddressCache # <<>>
                 THEN postalCodeAddressCache[1] ELSE loadData
  /\ UNCHANGED <<localStorageTimestamp, database, postalCodeAddressCache, lookupPc,
                 lookupRecords, lookupReturned, lookupAfterLoad, lookupCount, clearPc,
                 clearBefore, clearAfter>>
  /\ PostalFrame

\* lines 69-121: the zip file is fetched and parsed, or an error is caught
\* and null returned
LoadFetch ==
  /\ loadPc = "fetch"
  /\ \E ok \in BOOLEAN :
       IF ok THEN loadData' = NetworkPostalData /\ loadPc' = "save"
       ELSE loadPc' = "failed" /\ UNCHANGED loadData
  /\ UNCHANGED <<localStorageTimestamp, database, postalCodeAddressCache, lookupPc,
                 lookupRecords, lookupReturned, lookupAfterLoad, lookupCount, clearPc,
                 clearBefore, clearAfter>>
  /\ PostalFrame

\* line 123: saveDataToDB(postalData)
LoadSave ==
  /\ loadPc = "save"
  /\ database' = saveDataToDB(database, loadData)
  /\ loadPc' = "stamp"
  /\ UNCHANGED <<localStorageTimestamp, postalCodeAddressCache, loadData, lookupPc,
                 lookupRecords, lookupReturned, lookupAfterLoad, lookupCount, clearPc,
                 clearBefore, clearAfter>>
  /\ PostalFrame

\* lines 124-126: the timestamp is set and the new data returned
LoadStamp ==
  /\ loadPc = "stamp"
  /\ localStorageTimestamp' = <<0>>
  /\ loadPc' = "done"
  /\ UNCHANGED <<database, postalCodeAddressCache, loadData, lookupPc, lookupRecords,
                 lookupReturned, lookupAfterLoad, lookupCount, clearPc, clearBefore,
                 clearAfter>>
  /\ PostalFrame

\* line 66, getDataFromDB lines 40-47: the records are read
LoadRead ==
  /\ loadPc = "read"
  /\ loadData' = database
  /\ loadPc' = "assign"
  /\ UNCHANGED <<localStorageTimestamp, database, postalCodeAddressCache, lookupPc,
                 lookupRecords, lookupReturned, lookupAfterLoad, lookupCount, clearPc,
                 clearBefore, clearAfter>>
  /\ PostalFrame

\* getDataFromDB lines 49-54
LoadAssign ==
  /\ loadPc = "assign"
  /\ postalCodeAddressCache' = <<loadData>>
  /\ loadPc' = "cached"
  /\ UNCHANGED <<localStorageTimestamp, database, loadData, lookupPc, lookupRecords,
                 lookupReturned, lookupAfterLoad, lookupCount, clearPc, clearBefore,
                 clearAfter>>
  /\ PostalFrame

\* getDataFromDB called by a lookup of the page, lines 35-39
LookupStart ==
  /\ lookupPc \in {"idle", "returned"}
  /\ loadPc # "none"
  /\ clearPc # "resolved"
  /\ lookupCount < MaxLookups
  /\ lookupCount' = lookupCount + 1
  /\ lookupAfterLoad' = (loadPc = "done")
  /\ IF postalCodeAddressCache # <<>>
     THEN /\ lookupReturned' = postalCodeAddressCache[1]
          /\ lookupPc' = "returned"
     ELSE /\ lookupPc' = "read"
          /\ UNCHANGED lookupReturned
  /\ UNCHANGED <<localStorageTimestamp, database, postalCodeAddressCache, loadPc, loadData,
                 lookupRecords, clearPc, clearBefore, clearAfter>>
  /\ PostalFrame

\* lines 40-47: store.getAll()
LookupRead ==
  /\ lookupPc = "read"
  /\ lookupRecords' = database
  /\ lookupPc' = "assign"
  /\ UNCHANGED <<localStorageTimestamp, database, postalCodeAddressCache, loadPc, loadData,
                 lookupReturned, lookupAfterLoad, lookupCount, clearPc, clearBefore,
                 clearAfter>>
  /\ PostalFrame

\* lines 49-54
LookupAssign ==
  /\ lookupPc = "assign"
  /\ postalCodeAddressCache' = <<lookupRecords>>
  /\ lookupReturned' = lookupRecords
  /\ lookupPc' = "returned"
  /\ UNCHANGED <<localStorageTimestamp, database, loadPc, loadData, lookupRecords,
                 lookupAfterLoad, lookupCount, clearPc, clearBefore, clearAfter>>
  /\ PostalFrame

\* clearAllCache, lines 139-141: the timestamp is removed and the deletion of
\* the database requested
ClearStart ==
  /\ clearPc = "idle"
  /\ loadPc # "none"
  /\ clearBefore' = <<localStorageTimestamp, database, postalCodeAddressCache>>
  /\ localStorageTimestamp' = <<>>
  /\ clearPc' = "pending"
  /\ UNCHANGED <<database, postalCodeAddressCache, loadPc, loadData, lookupPc,
                 lookupRecords, lookupReturned, lookupAfterLoad, lookupCount, clearAfter>>
  /\ PostalFrame

\* request.onsuccess, lines 142-151
ClearSucceed ==
  /\ clearPc = "pending"
  /\ database' = {}
  /\ localStorageTimestamp' = <<>>
  /\ postalCodeAddressCache' = <<>>
  /\ clearAfter' = <<localStorageTimestamp', database', postalCodeAddressCache'>>
  /\ clearPc' = "resolved"
  /\ UNCHANGED <<loadPc, loadData, lookupPc, lookupRecords, lookupReturned,
                 lookupAfterLoad, lookupCount, clearBefore>>
  /\ PostalFrame

\* request.onerror, lines 152-154
ClearFail ==
  /\ clearPc = "pending"
  /\ clearAfter' = <<localStorageTimestamp, database, postalCodeAddressCache>>
  /\ clearPc' = "rejected"
  /\ UNCHANGED <<localStorageTimestamp, database, postalCodeAddressCache, loadPc, loadData,
                 lookupPc, lookupRecords, lookupReturned, lookupAfterLoad, lookupCount,
                 clearBefore>>
  /\ PostalFrame

\* query.html lines 345-347 and 362: location.reload() starts the page, and
\* with it postalDataService.js and the load, afresh
PageReload ==
  /\ clearPc = "resolved"
  /\ clearPc' = "reloaded"
  /\ postalCodeAddressCache' = <<>>
  /\ loadPc' = "start"
  /\ loadData' = {}
  /\ lookupPc' = "idle"
  /\ lookupRecords' = {}
  /\ UNCHANGED <<localStorageTimestamp, database, lookupReturned, lookupAfterLoad,
                 lookupCount, clearBefore, clearAfter>>
  /\ PostalFrame

PostalNext ==
  \/ LoadStart \/ LoadFetch \/ LoadSave \/ LoadStamp \/ LoadRead \/ LoadAssign
  \/ LookupStart \/ LookupRead \/ LookupAssign
  \/ ClearStart \/ ClearSucceed \/ ClearFail \/ PageReload

SpecPostal == PostalInit /\ [][PostalNext]_vars

(***************************************************************************)
(* query.html: the Query button (executeQuery) and the map-center button   *)
(* (getMapCenter).  A click reaches its handler only while the button is   *)
(* enabled.                                                                *)
(***************************************************************************)
MaxQueries == 3

QueryInit ==
  /\ QueryIdle
  /\ TourIdle
  /\ PipelineIdle
  /\ GeoIdle
  /\ CallIdle
  /\ WorkerIdle
  /\ PostalIdle

QueryFrame == UNCHANGED <<tourVars, mainVars, aggVars, geoVars, callVars, workerVars,
                          postalVars>>

\* a click on the Query button: executeQuery up to the fetch, lines 103-145
ClickQuery ==
  /\ ~queryBtnDisabled
  /\ queryCount < MaxQueries
  /\ queryCount' = queryCount + 1
  /\ resultDiv' = "loading"
  /\ map' = FALSE
  /\ queryBtnDisabled' = TRUE
  /\ getCenterBtnDisabled' = TRUE
  /\ sparqlInFlight' = sparqlInFlight + 1
  /\ UNCHANGED <<coordinateInputs, candidateLookups>>
  /\ QueryFrame

\* lines 152-157: an error in the response, or no binding
QueryNoResult ==
  /\ sparqlInFlight > 0
  /\ sparqlInFlight' = sparqlInFlight - 1
  /\ resultDiv' = "warning"
  /\ queryBtnDisabled' = FALSE
  /\ UNCHANGED <<getCenterBtnDisabled, map, coordinateInputs, queryCount, candidateLookups>>
  /\ QueryFrame

\* lines 159-285: a binding whose geometry wellknown.parse cannot read; the
\* two postal-code lookups have been started
QueryUnparseable ==
  /\ sparqlInFlight > 0
  /\ sparqlInFlight' = sparqlInFlight - 1
  /\ resultDiv' = "parseError"
  /\ candidateLookups' = candidateLookups + 2
  /\ queryBtnDisabled' = FALSE
  /\ UNCHANGED <<getCenterBtnDisabled, map, coordinateInputs, queryCount>>
  /\ QueryFrame

\* lines 159-302: the result and its map are shown
QueryShown ==
  /\ sparqlInFlight > 0
  /\ sparqlInFlight' = sparqlInFlight - 1
  /\ resultDiv' = "success"
  /\ candidateLookups' = candidateLookups + 2
  /\ map' = TRUE
  /\ queryBtnDisabled' = FALSE
  /\ getCenterBtnDisabled' = FALSE
  /\ UNCHANGED <<coordinateInputs, queryCount>>
  /\ QueryFrame

\* lines 304-308: the fetch or response.json() failed, or the handler of
\* line 147 threw, before or after it started the postal-code lookups
QueryError ==
  /\ sparqlInFlight > 0
  /\ sparqlInFlight' = sparqlInFlight - 1
  /\ resultDiv' = "danger"
  /\ \E started \in {0, 2} : candidateLookups' = candidateLookups + started
  /\ queryBtnDisabled' = FALSE
  /\ UNCHANGED <<getCenterBtnDisabled, map, coordinateInputs, queryCount>>
  /\ QueryFrame

\* lines 187-196 and 199-270: a postal-code lookup settles and its outcome is
\* appended to the page
CandidateLookupSettles ==
  /\ candidateLookups > 0
  /\ candidateLookups' = candidateLookups - 1
  /\ UNCHANGED <<queryBtnDisabled, getCenterBtnDisabled, map, coordinateInputs,
                 sparqlInFlight, queryCount, resultDiv>>
  /\ QueryFrame

\* a click on the map-center button: getMapCenter, lines 311-317
ClickGetCenter ==
  /\ ~getCenterBtnDisabled
  /\ map
  /\ coordinateInputs = "typed"
  /\ coordinateInputs' = "mapCenter"
  /\ UNCHANGED <<queryBtnDisabled, getCenterBtnDisabled, map, sparqlInFlight, queryCount,
                 resultDiv, candidateLookups>>
  /\ QueryFrame

\* the user types coordinates into lonInput and latInput
TypeCoordinates ==
  /\ coordinateInputs = "mapCenter"
  /\ coordinateInputs' = "typed"
  /\ UNCHANGED <<queryBtnDisabled, getCenterBtnDisabled, map, sparqlInFlight, queryCount,
                 resultDiv, candidateLookups>>
  /\ QueryFrame

QueryNext ==
  \/ ClickQuery \/ QueryNoResult \/ QueryUnparseable \/ QueryShown \/ QueryError
  \/ CandidateLookupSettles \/ ClickGetCenter \/ TypeCoordinates

SpecQuery == QueryInit /\ [][QueryNext]_vars

(***************************************************************************)
(* Claims about the tour builder (specification SpecTour).                 *)
(***************************************************************************)
TourStartSupplied == tourStart[1] # <<>> /\ tourStart[2] # <<>>

\* the code's test for using the start: both coordinates truthy
TourStartUsed == JsTruthy(tourStart[1]) /\ JsTruthy(tourStart[2])

IdsOf(s) == { s[i].map_store_id : i \in 1..Len(s) }

\* C3: the returned tour has the length of the input and holds each input
\* identity exactly once, whatever the start argument.
C3_TourVisitsEachOnce ==
  tourPc = "returned" =>
    /\ Len(tourResult) = Len(tourStores)
    /\ \A i \in 1..Len(tourStores) :
         Cardinality({ j \in 1..Len(tourResult) :
                         tourResult[j].map_store_id = tourStores[i].map_store_id }) = 1

\* a three-store call with a start that is used has returned a tour that is
\* not the input order
C3_Witness ==
  /\ tourPc = "returned"
  /\ Len(tourStores) = MaxStores
  /\ TourStartUsed
  /\ tourResult # tourStores

\* C9: with a start coordinate supplied the first tour element is a record
\* at minimum distance from it (a start with latitude or longitude 0
\* included); with none supplied it is the first input record.
C9_FirstIsNearestToStart ==
  (tourPc = "returned" /\ Len(tourStores) > 0) =>
    IF TourStartSupplied
    THEN \A i \in 1..Len(tourStores) :
           calculateDistance(tourStart[1][1], tourStart[2][1],
                             tourResult[1].latitude, tourResult[1].longitude)
             <= calculateDistance(tourStart[1][1], tourStart[2][1],
                                  tourStores[i].latitude, tourStores[i].longitude)
    ELSE tourResult[1] = tourStores[1]

\* the input indices not yet in the tour before its k-th element was appended
TourUnvisited(k) ==
  { i \in 1..Len(tourStores) :
      \A j \in 1..(k - 1) : tour.ordered[j].map_store_id # tourStores[i].map_store_id }

\* the tour endpoint the k-th element was appended to: the element before it,
\* or the start coordinate for the first element
TourEndpoint(k) ==
  IF k = 1 THEN [latitude |-> tourStart[1][1], longitude |-> tourStart[2][1]]
  ELSE [latitude |-> tour.ordered[k - 1].latitude,
        longitude |-> tour.ordered[k - 1].longitude]

TourDistFrom(k, store) ==
  calculateDistance(TourEndpoint(k).latitude, TourEndpoint(k).longitude,
                    store.latitude, store.longitude)

\* the tour positions filled by an iteration of the while loop
TourLoopPositions == (IF TourStartUsed THEN 1 ELSE 2)..Len(tour.ordered)

\* C10: every record the loop appends is at minimum distance from the
\* current tour endpoint among the records not yet in the tour, and of
\* several records at that minimum the earliest of the input sequence is
\* the one appended.
C10_GreedyStepEarliestTie ==
  \A k \in TourLoopPositions :
    \E i \in TourUnvisited(k) :
      /\ tour.ordered[k] = tourStores[i]
      /\ \A j \in TourUnvisited(k) :
           /\ TourDistFrom(k, tourStores[i]) <= TourDistFrom(k, tourStores[j])
           /\ TourDistFrom(k, tourStores[i]) = TourDistFrom(k, tourStores[j]) => i <= j

\* the loop has appended a record that tied with a later unvisited record
C10_Witness ==
  \E k \in TourLoopPositions :
    \E i, j \in TourUnvisited(k) :
      /\ i < j
      /\ tour.ordered[k] = tourStores[i]
      /\ TourDistFrom(k, tourStores[i]) = TourDistFrom(k, tourStores[j])

\* the distance of the i-th input record from the start argument
TourDistFromStart(i) ==
  calculateDistance(tourStart[1][1], tourStart[2][1],
                    tourStores[i].latitude, tourStores[i].longitude)

TourTwoRecords == tourPc = "returned" /\ Len(tourStores) = 2

TourOtherOrdering == <<tourStores[2], tourStores[1]>>

NoTwoShareId(s) ==
  \A i \in 1..Len(s), j \in 1..Len(s) : i # j => s[i].map_store_id # s[j].map_store_id

AreaRun == req.entry = "main" /\ isAreaCode(NormalizeCode(req.code))

PostalRun == req.entry = "main" /\ isPostalCode(NormalizeCode(req.code))

\* C1: whatever the probes returned, no two records returned by an aggregator
\* share a map_store_id, and neither do two records of the filtered and ordered
\* sets of the pipeline.
C1_NoDuplicateIdentity ==
  /\ aggPc = "returned" => NoTwoShareId(retval)
  /\ pc \in {"done", "exit0"} => NoTwoShareId(filteredStores) /\ NoTwoShareId(orderedStores)

\* an area run has ended with two stores written out, after probes that
\* returned the same map_store_id more than once
C1_Witness ==
  /\ AreaRun
  /\ pc = "done"
  /\ Len(orderedStores) >= 2
  /\ \E i \in 1..Len(fetched), j \in 1..Len(fetched) :
       i # j /\ fetched[i].map_store_id = fetched[j].map_store_id

\* the boundary geometries of the model are rectangles with sides along the
\* axes: a coordinate is contained when it is strictly between the sides
InsideBoundary(geojson, store) ==
  LET ring == geojson.coordinates[1]
      xs == { ring[i][1] : i \in 1..Len(ring) }
      ys == { ring[i][2] : i \in 1..Len(ring) }
  IN  /\ \E a \in xs, b \in xs : a < store.longitude /\ store.longitude < b
      /\ \E a \in ys, b \in ys : a < store.latitude /\ store.latitude < b

InsideSomeBoundary(store) ==
  \E i \in 1..Len(req.geocode.geometries) : InsideBoundary(req.geocode.geometries[i], store)

\* a postal run whose geocoding gave the boundary polygon
PostalRunWithBoundary ==
  /\ PostalRun
  /\ req.postalInfo
  /\ req.geocode.ok
  /\ ~JsTruthy(req.centerOption[1]) \/ ~JsTruthy(req.centerOption[2])

RunEnded == aggPc \in {"returned", "rejected"}

\* C4, as stated: when a probe has failed, the run still probes every
\* coordinate of the sequence and returns to its caller.
C4_FailureDoesNotAbort ==
  (RunEnded /\ succeeded < Len(probeLog)) =>
    /\ Len(probeLog) = Len(points)
    /\ aggPc = "returned"

\* C5, as stated: a run all of whose probes failed does not end with an
\* ordinary return.
C5_AllFailedIsNotASuccess ==
  (RunEnded /\ Len(probeLog) > 0 /\ succeeded = 0) => aggPc # "returned"

\* C6: at most one probe is in flight, it is the last one issued, and the
\* probes issued so far are the leading coordinates of the sequence, in order.
C6_OneProbeInFlightInOrder ==
  /\ Cardinality(inflight) <= 1
  /\ inflight \subseteq {Len(probeLog)}
  /\ Len(probeLog) <= Len(points)
  /\ \A k \in 1..Len(probeLog) : probeLog[k] = ProbeCoordinate(req.entry, points[k])

\* a third probe is in flight after one failure and one success
C6_Witness ==
  /\ Len(probeLog) = 3
  /\ inflight = {3}
  /\ succeeded = 1

\* C7, as stated: no probe after the first is issued before the pacing wait
\* has elapsed since the outcome of the probe before it.
C7_PacingBetweenProbes == ~unpacedIssue

\* the probes of a tessellated run of main are over and none has failed
TessellatedRunProbed ==
  /\ req.entry = "main"
  /\ Len(hexagonPolygons) > 0
  /\ Len(points) > 0
  /\ Len(probeLog) = Len(points)
  /\ succeeded = Len(points)

\* C8, as stated: a tessellated run probes once per accepted cell, at the
\* center of the cell.
C8_OneProbePerCellCenter ==
  TessellatedRunProbed =>
    /\ Len(probeLog) = Len(hexagonPolygons)
    /\ \A k \in 1..Len(probeLog) :
         \E h \in 1..Len(hexagonPolygons) : probeLog[k] = hexagonPolygons[h].center

\* C12, as stated: of an identity that several probes of a run returned, the
\* record the aggregator returns carries the payload of the latest of them.
C12_LaterPayloadKept ==
  (aggPc = "returned" /\ Len(probeLog) > 0) =>
    \A i \in 1..Len(retval), j \in 1..Len(lastPayloads) :
      retval[i].map_store_id = lastPayloads[j].map_store_id =>
        retval[i].rev = lastPayloads[j].rev

(***************************************************************************)
(* Claims about the geometry functions (specification SpecGeometry).       *)
(***************************************************************************)
\* the points tested for coverage: this many steps along each side of the
\* bounding box
SamplesPerSide == 12

SamplePoints(geojson) ==
  LET e == GdalEnvelope(geojson)
  IN  { << e.minX + (((e.maxX - e.minX) * i) \div SamplesPerSide),
           e.minY + (((e.maxY - e.minY) * j) \div SamplesPerSide) >> :
          i \in 0..SamplesPerSide, j \in 0..SamplesPerSide }

\* the point lies in the hexagon, its boundary included
InsideOrOnRing(pt, ring) ==
  \/ \A i \in 1..(Len(ring) - 1) : Cross(ring[i], ring[i + 1], pt) >= 0
  \/ \A i \in 1..(Len(ring) - 1) : Cross(ring[i], ring[i + 1], pt) <= 0

CoveredByCells(pt, cells) ==
  \E c \in 1..Len(cells) : InsideOrOnRing(pt, cells[c].geometry.coordinates[1])

Tessellated == geoPc = "hasCells"

CentroidReturned == geoPc = "hasCentroid"

\* C16: for a MultiPolygon the result is the centroid of a part whose
\* absolute shoelace area no other part exceeds, taken on its own.
C16_CentroidOfLargestPart ==
  (CentroidReturned /\ geoInput.type = "MultiPolygon") =>
    \E k \in 1..Len(geoInput.coordinates) :
      /\ \A m \in 1..Len(geoInput.coordinates) :
           Abs(ShoelaceTwice(geoInput.coordinates[m][1]))
             <= Abs(ShoelaceTwice(geoInput.coordinates[k][1]))
      /\ geoCentroid[1] = calculateCentroid(Polygon(geoInput.coordinates[k][1]))

\* the largest part comes after a part without area, and the result is not
\* the centroid of the first part
C16_Witness ==
  /\ CentroidReturned
  /\ geoInput.type = "MultiPolygon"
  /\ Len(geoInput.coordinates) >= 2
  /\ ShoelaceTwice(geoInput.coordinates[1][1]) = 0
  /\ geoCentroid[1] # calculateCentroid(Polygon(geoInput.coordinates[1][1]))

\* C17, as stated: the centroid of the closed square of side 2 at the
\* origin is (1, 1).
C17_SquareCentroid ==
  (CentroidReturned /\ geoInput = SquareOfSideTwo) => geoCentroid[1] = <<100000, 100000>>

(***************************************************************************)
(* Further claims about the pipeline (specification Spec).                 *)
(***************************************************************************)
\* main has asked the boundary service for the geometry of the code
BoundaryLookupDone ==
  \/ AreaRun
  \/ /\ PostalRun
     /\ req.postalInfo
     /\ ~JsTruthy(req.centerOption[1]) \/ ~JsTruthy(req.centerOption[2])

\* the boundary the run tessellates: the union of the parts of an area, the
\* geometry of a postal code
RunBoundary ==
  IF AreaRun THEN GdalUnion(req.geocode.geometries) ELSE req.geocode.geometries[1]

BoundaryFound ==
  BoundaryLookupDone /\ req.geocode.ok /\ Len(req.geocode.geometries) > 0

\* the centroid of the run's first geometry, as a probe coordinate
RunCentroid ==
  LET c == calculateCentroid(req.geocode.geometries[1])
  IN  [latitude |-> c[2], longitude |-> c[1]]

\* C14, as stated: when the scan accepts no cell for the boundary, the
\* tessellation is one cell centered at the centroid and the only probe of the
\* run goes to the centroid.
C14_FallbackCellAtCentroid ==
  (BoundaryFound /\ pc # "start"
     /\ generateHexagonPolygons(RunBoundary, req.resolution) = <<>>) =>
    /\ Len(hexagonPolygons) = 1
    /\ hexagonPolygons[1].center = RunCentroid
    /\ Len(probeLog) <= 1
    /\ \A k \in 1..Len(probeLog) : probeLog[k] = RunCentroid

BoundaryUnusable ==
  /\ BoundaryLookupDone
  /\ \/ ~req.geocode.ok
     \/ Len(req.geocode.geometries) = 0
     \/ ~GdalHasArea(RunBoundary)

\* C15, as stated: a run without a usable boundary ends with an error and
\* issues no probe.
C15_NoBoundaryIsAnError ==
  BoundaryUnusable =>
    /\ pc \in {"start", "exit1"}
    /\ Len(probeLog) = 0

\* C18, as stated: a postal run with optimization on writes out the tour
\* from the run's origin; an area run, and a postal run with optimization
\* switched off, write out the filtered records sorted by name.
C18_RouteOrNameOrder ==
  pc = "done" =>
    orderedStores =
      IF PostalRun /\ ~req.noOptimizeFlag
      THEN orderStoresNearestNeighbor(filteredStores, center[1], center[2])
      ELSE SortByName(filteredStores)

\* caching is enabled and the cache file of the request exists, is younger
\* than 24 hours and can be read
CacheEntryUsable ==
  /\ req.cacheOption
  /\ cache.exists
  /\ cache.readable
  /\ cache.age < 24

\* C19: getAllStores answers from the cache, without a probe or a detail
\* request, exactly when caching is on and a readable entry younger than 24
\* hours exists; otherwise it probes, and the set it returns is the new entry.
C19_CacheUsedOnlyWhenFresh ==
  req.entry = "main" =>
    /\ aggPc \in {"issue", "await", "rejected"} => ~CacheEntryUsable
    /\ aggPc = "returned" =>
         IF Len(points) = 0
         THEN /\ CacheEntryUsable
              /\ retval = cache.stores
              /\ Len(probeLog) = 0
              /\ detailRequests = 0
         ELSE /\ Len(probeLog) = Len(points)
              /\ cache = [exists |-> TRUE, age |-> 0, readable |-> TRUE, stores |-> retval]

\* with caching on, a run that found no usable entry has probed and has
\* replaced the entry by a different record set
C19_Witness ==
  /\ req.entry = "main"
  /\ req.cacheOption
  /\ aggPc = "returned"
  /\ Len(probeLog) > 0
  /\ detailRequests > 0
  /\ cache.age = 0
  /\ cache.stores # CachedStores

\* C20, as stated: at the end of a run the point-search service has been
\* called once for each position of the coordinate sequence, failed calls
\* included.
C20_OneCallPerCoordinate ==
  (RunEnded /\ Len(points) > 0) =>
    /\ Len(probeLog) = Len(points)
    /\ \A k \in 1..Len(points) : probeLog[k] = ProbeCoordinate(req.entry, points[k])


(***************************************************************************)
(* Claims about generateHexagonalGrid and generateKML (specification       *)
(* SpecCalls).                                                             *)
(***************************************************************************)
GridReturned == callPc = "hasGrid"

\* the axial coordinates within `rings` of the center that the conversion of
\* lines 34-35 maps to the point
AxialCandidates(point, args) ==
  { a \in (-args.rings..args.rings) \X (-args.rings..args.rings) :
      /\ point.lat = args.centerLat + (a[1] * args.spacing)
      /\ point.lng = args.centerLng +
           ((((2 * a[2]) + a[1]) * args.spacing * CosMilli(args.centerLat)) \div 2000) }

HexDistance(a) == (Abs(a[1]) + Abs(a[2]) + Abs(a[1] + a[2])) \div 2

\* the positions of ring k in the returned array
RingPositions(k) == (2 + (3 * (k - 1) * k))..(1 + (3 * k * (k + 1)))

\* C21: for every rings >= 0, generateHexagonalGrid returns hexagonCount(rings)
\* = 1 + 3 * rings * (rings + 1) points: the center first, then for each ring
\* k = 1..rings exactly 6k points with pairwise distinct axial coordinates at
\* hexagonal distance k from the center.
C21_GridIsCenterAndRings ==
  GridReturned =>
    /\ Len(callResult) = hexagonCount(callArgs.rings)
    /\ Len(callResult) = 1 + (3 * callArgs.rings * (callArgs.rings + 1))
    /\ callResult[1] = [lat |-> callArgs.centerLat, lng |-> callArgs.centerLng]
    /\ \A k \in 1..callArgs.rings :
         /\ Cardinality(RingPositions(k)) = 6 * k
         /\ \A i \in RingPositions(k) :
              /\ i <= Len(callResult)
              /\ Cardinality(AxialCandidates(callResult[i], callArgs)) = 1
              /\ \A a \in AxialCandidates(callResult[i], callArgs) : HexDistance(a) = k
         /\ \A i, j \in RingPositions(k) :
              i # j => callResult[i] # callResult[j]

\* a grid of several rings away from the equator
C21_Witness ==
  /\ GridReturned
  /\ callArgs.rings >= 2
  /\ callArgs.centerLat # 0
  /\ Len(callResult) >= 19

KmlReturned == callPc = "hasKml"

IsStorePlacemark(e) == e.element = "Placemark" /\ e.geometry = "Point"

IsRouteLine(e) == e.element = "Placemark" /\ e.geometry = "LineString"

CoordinateOf(store) == <<store.longitude, store.latitude>>

\* C22: for an ordered store list of length n, generateKML emits exactly n
\* store placemarks numbered 1..n in list order, the first with the
\* startPoint style and the others with the storePoint style, and one route
\* LineString with the stores' coordinates in the same order iff n > 1.
C22_PlacemarksAndRoute ==
  KmlReturned =>
    LET stores == callArgs.orderedStores
        marks  == SelectSeq(callResult, IsStorePlacemark)
        routes == SelectSeq(callResult, IsRouteLine)
    IN  /\ Len(marks) = Len(stores)
        /\ \A i \in 1..Len(marks) :
             /\ marks[i].number = i
             /\ marks[i].storeId = stores[i].map_store_id
             /\ marks[i].coordinates = <<CoordinateOf(stores[i])>>
             /\ marks[i].styleUrl = IF i = 1 THEN "startPoint" ELSE "storePoint"
        /\ Len(routes) = IF Len(stores) > 1 THEN 1 ELSE 0
        /\ \A r \in 1..Len(routes) :
             routes[r].coordinates = [i \in 1..Len(stores) |-> CoordinateOf(stores[i])]

\* a document with a hexagon folder, three store placemarks and the route
C22_Witness ==
  /\ KmlReturned
  /\ Len(callArgs.orderedStores) >= 3
  /\ Len(callArgs.hexagons) > 0
  /\ \E i \in 1..Len(callResult) : IsRouteLine(callResult[i])

(***************************************************************************)
(* More claims about getAllStores and main (specification Spec).           *)
(***************************************************************************)
FreshRunReturned == req.entry = "main" /\ aggPc = "returned" /\ Len(points) > 0

HasRpayService(store) ==
  /\ store.service_id.isArray
  /\ \E i \in 1..Len(store.service_id.items) : store.service_id.items[i] = "rpay"

HasExcludedName(store) ==
  \E excluded \in EXCLUDE_STORE_NAMES_CONTAINING : Includes(store.store_name, excluded)

\* C23, as stated: every record a fresh getAllStores run returns, details
\* merged, has a service_id array containing 'rpay' and a store_name
\* containing none of the excluded chain names.
C23_ReturnedAreRpayAndNotExcluded ==
  FreshRunReturned =>
    \A i \in 1..Len(retval) : HasRpayService(retval[i]) /\ ~HasExcludedName(retval[i])

\* main has left its first step for a code whose boundary lookup succeeds
CodeClassified ==
  /\ req.entry = "main"
  /\ pc # "start"
  /\ req.geocode.ok
  /\ Len(req.geocode.geometries) > 0

\* the run ended with exit status 1 before getAllStores was called; with a
\* boundary available that is the 'Invalid code format' error
InvalidCodeFormatExit == pc = "exit1" /\ aggPc = "idle"

\* C24, as stated: a code with 5, 9, 11 or 12 digits is processed as an area
\* code and one with 7 digits as a postal code; every code that
\* geocodeAreaCode and getCacheFilePath take for an area code is accepted,
\* and only the other lengths end in the 'Invalid code format' error.
C24_AreaCodeLengthsAccepted ==
  CodeClassified =>
    LET n == Len(NormalizeCode(req.code))
    IN  /\ n \in {5, 7, 9, 11, 12} => ~InvalidCodeFormatExit
        /\ (CacheTypeOf(req.code) = "area" /\ GeocodeAreaCodeHasQuery(req.code))
             => ~InvalidCodeFormatExit
        /\ (n \notin {5, 7, 9, 11, 12} /\ CacheTypeOf(req.code) = "other")
             => InvalidCodeFormatExit

\* the cache file is the one the run found: every file a run writes is new
CacheAsBefore == ~cache.exists \/ cache.age > 0

\* a record of the returned set without the fields of its detail lookup
DetailLookupFailed ==
  \E i \in 1..Len(retval) : retval[i].postal_code = <<>>

\* C29, as stated: when a probe or any later step of getAllStores fails, the
\* call rejects, returns no partial record set and leaves the cache entry as
\* it was before the call; a cache entry is written only after every probe
\* and every detail batch of the run has completed.
C29_FailureRejectsAndKeepsCache ==
  (req.entry = "main" /\ Len(points) > 0) =>
    /\ aggPc = "rejected" => (retval = <<>> /\ CacheAsBefore)
    /\ aggPc = "returned" => ~DetailLookupFailed
    /\ ~CacheAsBefore => (Len(probeLog) = Len(points) /\ succeeded = Len(points))

(***************************************************************************)
(* Claims about the TSP worker (specification SpecWorker).                 *)
(***************************************************************************)
MessagesOf(request) ==
  LET OfRequest(m) == m.request = request IN SelectSeq(posted, OfRequest)

IsTerminal(m) == m.type \in {"result", "error"}

IsProgress(m) == m.type = "progress"

\* the handler of the request has run to its end
RequestSettled(request) == request < handled \/ workerPc = "wait"

\* C25: for every request message the worker posts exactly one terminal
\* message (result or error), and it is the last message of that request;
\* before it, for a non-empty matrix of size n, the progress messages carry
\* the counts 0, 1, 2, ... in increasing order, each with total n, and the
\* last progress count is the length of the path in the result.
C25_OneTerminalMessageAfterProgress ==
  /\ \A i \in 1..(Len(posted) - 1) : posted[i].request <= posted[i + 1].request
  /\ \A request \in 1..handled :
       LET ms == MessagesOf(request)
           terminals == { i \in 1..Len(ms) : IsTerminal(ms[i]) }
       IN  /\ Cardinality(terminals) = IF RequestSettled(request) THEN 1 ELSE 0
           /\ \A i \in terminals : i = Len(ms)
  /\ (handled > 0 /\ Len(distanceMatrix) > 0) =>
       LET ms == MessagesOf(handled)
           progress == SelectSeq(ms, IsProgress)
       IN  /\ Len(progress) >= 2
           /\ \A i \in 1..Len(progress) :
                /\ progress[i].count = i - 1
                /\ progress[i].total = Len(distanceMatrix)
           /\ \A i \in 1..Len(ms) :
                ms[i].type = "result" =>
                  progress[Len(progress)].count = Len(ms[i].result)

\* two requests answered, the first with a path over three cities
C25_Witness ==
  /\ handled = 2
  /\ workerPc = "wait"
  /\ inbox = <<>>
  /\ \E i \in 1..Len(posted) :
       /\ posted[i].request = 1
       /\ posted[i].type = "result"
       /\ Len(posted[i].result) = 3
  /\ IsTerminal(posted[Len(posted)])

\* the results posted for the request at hand, a matrix of array rows
TspResults ==
  IF handled > 0 /\ Len(distanceMatrix) > 0 /\ distanceMatrix[1] # NullRow
  THEN { m.result : m \in { posted[i] : i \in { j \in 1..Len(posted) :
                                                  /\ posted[j].request = handled
                                                  /\ posted[j].type = "result" } } }
  ELSE {}

CitiesBefore(result, i) == { result[j] : j \in 1..(i - 1) }

CitiesOf(result) == { result[j] : j \in 1..Len(result) }

AllCities == 0..(Len(distanceMatrix) - 1)

Distance(a, b) == distanceMatrix[a + 1][b + 1]

\* the path starts with city 0, has no city twice, and each next city is an
\* unvisited city with the smallest distance from the one before
TspPathIsGreedy(result) ==
  /\ Len(result) >= 1
  /\ result[1] = 0
  /\ \A i, j \in 1..Len(result) : i # j => result[i] # result[j]
  /\ CitiesOf(result) \subseteq AllCities
  /\ \A i \in 2..Len(result) :
       \A c \in AllCities \ CitiesBefore(result, i) :
         Distance(result[i - 1], result[i]) <= Distance(result[i - 1], c)

\* C26, as stated: for every n x n matrix with n > 0 the returned path starts
\* with city 0, never contains a city twice and visits all n cities, each
\* next city being the unvisited city with the smallest distance from the
\* current one.
C26_PathVisitsAllCities ==
  \A result \in TspResults :
    /\ TspPathIsGreedy(result)
    /\ CitiesOf(result) = AllCities

\* C26, amended: the path is greedy as stated, the lowest index winning a
\* tie, and it ends either when all n cities are on it or when no remaining
\* city has a distance below Infinity from the last city of the path.
C26_PathIsGreedyUntilDisconnected ==
  \A result \in TspResults :
    /\ TspPathIsGreedy(result)
    /\ \A i \in 2..Len(result) :
         /\ Distance(result[i - 1], result[i]) < Infinity
         /\ \A c \in AllCities \ CitiesBefore(result, i) :
              Distance(result[i - 1], c) = Distance(result[i - 1], result[i])
                => result[i] <= c
    /\ \/ CitiesOf(result) = AllCities
       \/ \A c \in AllCities \ CitiesOf(result) :
            ~(Distance(result[Len(result)], c) < Infinity)

\* a path over three cities that does not follow the order of the indices
C26_Witness ==
  \E result \in TspResults :
    /\ Len(result) = 3
    /\ result[2] = 2

(***************************************************************************)
(* Claims about postalDataService.js (specification SpecPostal).           *)
(***************************************************************************)
\* fetchAndCachePostalData has fetched, stored and stamped the postal data
LoadCompleted == loadPc = "done"

\* C27, as stated: once fetchAndCachePostalData has completed successfully,
\* every later getDataFromDB / getPostalData call returns the postal data
\* the load stored, whatever lookups ran during the load, and the in-memory
\* postalCodeAddressCache never holds data older than the database.
C27_LookupsSeeLoadedData ==
  LoadCompleted =>
    /\ (lookupPc = "returned" /\ lookupAfterLoad) =>
         /\ lookupReturned = database
         /\ \A code \in PostalCodesOf(database) :
              getPostalData(lookupReturned, code) = getPostalData(database, code)
    /\ postalCodeAddressCache # <<>> => postalCodeAddressCache[1] = database

\* C28, as stated: when clearAllCache resolves, the timestamp is absent, the
\* database deleted and the in-memory cache null; when it rejects, the
\* timestamp, the database and the in-memory cache are as they were when it
\* was called.
C28_ClearIsAllOrNothing ==
  /\ clearPc \in {"resolved", "reloaded"} => clearAfter = << <<>>, {}, <<>> >>
  /\ clearPc = "rejected" => clearAfter = clearBefore

(***************************************************************************)
(* Claims about query.html (specification SpecQuery).                      *)
(***************************************************************************)
\* C30, as stated: the Query button and the map-center button are disabled
\* from the start of a query until its SPARQL request settles, so at most one
\* query started from the button is in flight; after the request has settled,
\* by whichever path, both buttons are enabled again.
C30_ButtonsDisabledWhileInFlight ==
  /\ sparqlInFlight <= 1
  /\ sparqlInFlight > 0 => (queryBtnDisabled /\ getCenterBtnDisabled)
  /\ sparqlInFlight = 0 => (~queryBtnDisabled /\ ~getCenterBtnDisabled)

====
